---- MODULE Spec2Model ----
(***************************************************************************)
(* Header extraction (GroundTruthAlignedExtractor, src/main.py) with the   *)
(* multilingual text processor (src/multilingual_support.py).              *)
(*                                                                         *)
(* A text is a sequence of characters.  A character is a one-character     *)
(* string; a code point outside ASCII is written "Uxxxx".  Scores are kept *)
(* in tenths (0.5 is 5), font sizes and positions are whole numbers.       *)
(***************************************************************************)
EXTENDS Integers, Sequences, FiniteSets, TLC

Range(s) == {s[i] : i \in DOMAIN s}

(* ----------------------------- characters ------------------------------ *)

LatinLower ==
  <<"a", "b", "c", "d", "e", "f", "g", "h", "i", "j", "k", "l", "m",
    "n", "o", "p", "q", "r", "s", "t", "u", "v", "w", "x", "y", "z">>

LatinUpper ==
  <<"A", "B", "C", "D", "E", "F", "G", "H", "I", "J", "K", "L", "M",
    "N", "O", "P", "Q", "R", "S", "T", "U", "V", "W", "X", "Y", "Z">>

\* cased pairs beyond ASCII: E-acute, and the Cyrillic letters of "Vvedenie"
UpperChars == LatinUpper \o <<"U00C9", "U0412", "U0415", "U0414", "U041D", "U0418">>

LowerChars == LatinLower \o <<"U00E9", "U0432", "U0435", "U0434", "U043D", "U0438">>

AsciiDigits == {"0", "1", "2", "3", "4", "5", "6", "7", "8", "9"}

ArabicIndicDigits ==
  {"U0660", "U0661", "U0662", "U0663", "U0664", "U0665", "U0666", "U0667", "U0668", "U0669"}

DevanagariDigits ==
  {"U0966", "U0967", "U0968", "U0969", "U096A", "U096B", "U096C", "U096D", "U096E", "U096F"}

ChineseNumerals ==
  {"U4E00", "U4E8C", "U4E09", "U56DB", "U4E94", "U516D", "U4E03", "U516B", "U4E5D", "U5341"}

\* \d of a str pattern, and str.isdigit on these characters
DecimalDigits == AsciiDigits \cup ArabicIndicDigits \cup DevanagariDigits

\* \s of a str pattern, and the characters str.strip and str.split cut at
Whitespace == {" ", "\t"}

\* the class [\u200b-\u200f\u2060\ufeff]
ZeroWidth == {"U200B", "U200C", "U200D", "U200E", "U200F", "U2060", "UFEFF"}

\* canonical combining classes of the combining marks of these texts (0 for every other
\* character)
CombiningClass ==
  ("U0301" :> 230) @@ ("U0302" :> 230) @@ ("U0303" :> 230) @@ ("U0308" :> 230) @@ ("U0323" :> 220)
  @@ ("U0327" :> 202) @@ ("U0654" :> 230) @@ ("U094D" :> 9) @@ ("U3099" :> 8)

\* canonical decompositions (unicodedata.normalize('NFD', ...)) of E-acute and of every
\* character of header_keywords that has one
Decomposition ==
  ("U00C9" :> <<"E", "U0301">>) @@ ("U00E1" :> <<"a", "U0301">>)
  @@ ("U00E3" :> <<"a", "U0303">>) @@ ("U00E7" :> <<"c", "U0327">>)
  @@ ("U00E9" :> <<"e", "U0301">>) @@ ("U00EA" :> <<"e", "U0302">>)
  @@ ("U00ED" :> <<"i", "U0301">>) @@ ("U00F3" :> <<"o", "U0301">>)
  @@ ("U00FA" :> <<"u", "U0301">>) @@ ("U00FC" :> <<"u", "U0308">>)
  @@ ("U0626" :> <<"U064A", "U0654">>) @@ ("U3058" :> <<"U3057", "U3099">>)
  @@ ("UAC10" :> <<"U1100", "U1161", "U11B7">>) @@ ("UAC1C" :> <<"U1100", "U1162">>)
  @@ ("UACAC" :> <<"U1100", "U1167", "U11AB">>) @@ ("UACB0" :> <<"U1100", "U1167", "U11AF">>)
  @@ ("UACBD" :> <<"U1100", "U1167", "U11BC">>) @@ ("UACE0" :> <<"U1100", "U1169">>)
  @@ ("UACFC" :> <<"U1100", "U116A">>) @@ ("UAD00" :> <<"U1100", "U116A", "U11AB">>)
  @@ ("UB85D" :> <<"U1105", "U1169", "U11A8">>) @@ ("UB860" :> <<"U1105", "U1169", "U11AB">>)
  @@ ("UB9AC" :> <<"U1105", "U1175">>) @@ ("UB9D0" :> <<"U1106", "U1161", "U11AF">>)
  @@ ("UBA38" :> <<"U1106", "U1165">>) @@ ("UBAA9" :> <<"U1106", "U1169", "U11A8">>)
  @@ ("UBB38" :> <<"U1106", "U116E", "U11AB">>) @@ ("UBC1C" :> <<"U1107", "U1161", "U11AF">>)
  @@ ("UBC29" :> <<"U1107", "U1161", "U11BC">>) @@ ("UBC30" :> <<"U1107", "U1162">>)
  @@ ("UBC95" :> <<"U1107", "U1165", "U11B8">>) @@ ("UBD80" :> <<"U1107", "U116E">>)
  @@ ("UBD84" :> <<"U1107", "U116E", "U11AB">>) @@ ("UC0AC" :> <<"U1109", "U1161">>)
  @@ ("UC0C9" :> <<"U1109", "U1162", "U11A8">>) @@ ("UC11C" :> <<"U1109", "U1165">>)
  @@ ("UC11D" :> <<"U1109", "U1165", "U11A8">>) @@ ("UC139" :> <<"U1109", "U1166", "U11A8">>)
  @@ ("UC158" :> <<"U1109", "U1167", "U11AB">>) @@ ("UC18C" :> <<"U1109", "U1169">>)
  @@ ("UC57D" :> <<"U110B", "U1163", "U11A8">>) @@ ("UC694" :> <<"U110B", "U116D">>)
  @@ ("UC758" :> <<"U110B", "U1174">>) @@ ("UC778" :> <<"U110B", "U1175", "U11AB">>)
  @@ ("UC7A5" :> <<"U110C", "U1161", "U11BC">>) @@ ("UC815" :> <<"U110C", "U1165", "U11BC">>)
  @@ ("UC870" :> <<"U110C", "U1169">>) @@ ("UCC28" :> <<"U110E", "U1161">>)
  @@ ("UCC38" :> <<"U110E", "U1161", "U11B7">>) @@ ("UCD08" :> <<"U110E", "U1169">>)
  @@ ("UD1A0" :> <<"U1110", "U1169">>) @@ ("UD5CC" :> <<"U1112", "U1165", "U11AB">>)

\* the script classes of script_patterns, in the order of the dictionary
script_patterns ==
  << [script |-> "latin",
      chars |-> Range(LatinLower) \cup Range(LatinUpper) \cup {"U00C9", "U00E9"}],
     [script |-> "cyrillic",
      chars |-> {"U0412", "U0415", "U0414", "U041D", "U0418",
                 "U0432", "U0435", "U0434", "U043D", "U0438"}],
     [script |-> "arabic", chars |-> ArabicIndicDigits],
     [script |-> "chinese", chars |-> ChineseNumerals],
     [script |-> "japanese_hiragana", chars |-> {"U306F"}],
     [script |-> "japanese_katakana", chars |-> {"U30BB"}],
     [script |-> "japanese_kanji", chars |-> ChineseNumerals],
     [script |-> "korean", chars |-> {"UC18C"}],
     [script |-> "devanagari", chars |-> DevanagariDigits],
     [script |-> "thai", chars |-> {}],
     [script |-> "hebrew", chars |-> {}] >>

Letters == Range(UpperChars) \cup Range(LowerChars)

\* \w of a str pattern
WordChars ==
  Letters \cup DecimalDigits \cup ChineseNumerals \cup {"_", "U306F", "U30BB", "UC18C", "U1109", "U1169"}

ToLower(c) ==
  IF c \in Range(UpperChars)
  THEN LowerChars[CHOOSE i \in DOMAIN UpperChars : UpperChars[i] = c]
  ELSE c

ToUpper(c) ==
  IF c \in Range(LowerChars)
  THEN UpperChars[CHOOSE i \in DOMAIN LowerChars : LowerChars[i] = c]
  ELSE c

(* ------------------------------- strings ------------------------------- *)

lower(s) == [i \in DOMAIN s |-> ToLower(s[i])]

strip(s) ==
  LET keep == {i \in DOMAIN s : s[i] \notin Whitespace}
  IN  IF keep = {} THEN <<>>
      ELSE SubSeq(s, CHOOSE i \in keep : \A j \in keep : i <= j,
                     CHOOSE i \in keep : \A j \in keep : j <= i)

isdigit(s) == s # <<>> /\ \A i \in DOMAIN s : s[i] \in DecimalDigits

\* keyword in text
Contains(t, k) ==
  \E i \in 1..(Len(t) - Len(k) + 1) : SubSeq(t, i, i + Len(k) - 1) = k

\* maximal runs of characters of cls (str.split for whitespace, \w+ for words)
Runs(s, cls) ==
  LET starts == {i \in DOMAIN s : s[i] \in cls /\ (i = 1 \/ s[i - 1] \notin cls)}
      EndOf(i) == CHOOSE j \in i..Len(s) :
                    /\ \A k \in i..j : s[k] \in cls
                    /\ (j = Len(s) \/ s[j + 1] \notin cls)
  IN  {SubSeq(s, i, EndOf(i)) : i \in starts}

\* the number of words of str.split()
WordStarts(s) ==
  {i \in DOMAIN s : s[i] \notin Whitespace /\ (i = 1 \/ s[i - 1] \in Whitespace)}

\* \b at the gap before position i (1 .. Len(s)+1)
WordBoundary(s, i) ==
  LET before == i > 1 /\ s[i - 1] \in WordChars
      after == i <= Len(s) /\ s[i] \in WordChars
  IN  before # after

\* re.search(r'\b(w1|w2|...)\b', s) for literal words
SearchWord(s, words) ==
  \E w \in words : \E i \in 1..(Len(s) - Len(w) + 1) :
    /\ SubSeq(s, i, i + Len(w) - 1) = w
    /\ WordBoundary(s, i)
    /\ WordBoundary(s, i + Len(w))

(* ------------------- MultilingualTextProcessor: tables ------------------ *)

\* header_keywords, one set of keywords per language
header_keywords ==
  [
   english |-> {
    <<"i", "n", "t", "r", "o", "d", "u", "c", "t", "i", "o", "n">>,
    <<"b", "a", "c", "k", "g", "r", "o", "u", "n", "d">>,
    <<"s", "u", "m", "m", "a", "r", "y">>,
    <<"c", "o", "n", "c", "l", "u", "s", "i", "o", "n">>,
    <<"r", "e", "f", "e", "r", "e", "n", "c", "e", "s">>,
    <<"a", "c", "k", "n", "o", "w", "l", "e", "d", "g", "e", "m", "e", "n", "t">>,
    <<"a", "c", "k", "n", "o", "w", "l", "e", "d", "g", "m", "e", "n", "t">>,
    <<"o", "v", "e", "r", "v", "i", "e", "w">>,
    <<"a", "b", "s", "t", "r", "a", "c", "t">>,
    <<"p", "r", "e", "f", "a", "c", "e">>,
    <<"c", "o", "n", "t", "e", "n", "t", "s">>,
    <<"c", "h", "a", "p", "t", "e", "r">>,
    <<"s", "e", "c", "t", "i", "o", "n">>,
    <<"a", "p", "p", "e", "n", "d", "i", "x">>,
    <<"b", "i", "b", "l", "i", "o", "g", "r", "a", "p", "h", "y">>,
    <<"i", "n", "d", "e", "x">>,
    <<"m", "e", "t", "h", "o", "d", "o", "l", "o", "g", "y">>,
    <<"r", "e", "s", "u", "l", "t", "s">>,
    <<"d", "i", "s", "c", "u", "s", "s", "i", "o", "n">>,
    <<"f", "i", "n", "d", "i", "n", "g", "s">>,
    <<"a", "n", "a", "l", "y", "s", "i", "s">>
   },
   spanish |-> {
    <<"i", "n", "t", "r", "o", "d", "u", "c", "c", "i", "U00F3", "n">>,
    <<"a", "n", "t", "e", "c", "e", "d", "e", "n", "t", "e", "s">>,
    <<"r", "e", "s", "u", "m", "e", "n">>,
    <<"c", "o", "n", "c", "l", "u", "s", "i", "U00F3", "n">>,
    <<"r", "e", "f", "e", "r", "e", "n", "c", "i", "a", "s">>,
    <<"a", "g", "r", "a", "d", "e", "c", "i", "m", "i", "e", "n", "t", "o", "s">>,
    <<"a", "b", "s", "t", "r", "a", "c", "t", "o">>,
    <<"p", "r", "e", "f", "a", "c", "i", "o">>,
    <<"c", "o", "n", "t", "e", "n", "i", "d", "o", "s">>,
    <<"c", "a", "p", "U00ED", "t", "u", "l", "o">>,
    <<"s", "e", "c", "c", "i", "U00F3", "n">>,
    <<"a", "p", "U00E9", "n", "d", "i", "c", "e">>,
    <<"b", "i", "b", "l", "i", "o", "g", "r", "a", "f", "U00ED", "a">>,
    <<"U00ED", "n", "d", "i", "c", "e">>,
    <<"m", "e", "t", "o", "d", "o", "l", "o", "g", "U00ED", "a">>,
    <<"r", "e", "s", "u", "l", "t", "a", "d", "o", "s">>,
    <<"d", "i", "s", "c", "u", "s", "i", "U00F3", "n">>,
    <<"h", "a", "l", "l", "a", "z", "g", "o", "s">>,
    <<"a", "n", "U00E1", "l", "i", "s", "i", "s">>
   },
   french |-> {
    <<"i", "n", "t", "r", "o", "d", "u", "c", "t", "i", "o", "n">>,
    <<"c", "o", "n", "t", "e", "x", "t", "e">>,
    <<"r", "U00E9", "s", "u", "m", "U00E9">>,
    <<"c", "o", "n", "c", "l", "u", "s", "i", "o", "n">>,
    <<"r", "U00E9", "f", "U00E9", "r", "e", "n", "c", "e", "s">>,
    <<"r", "e", "m", "e", "r", "c", "i", "e", "m", "e", "n", "t", "s">>,
    <<"a", "p", "e", "r", "U00E7", "u">>,
    <<"p", "r", "U00E9", "f", "a", "c", "e">>,
    <<"s", "o", "m", "m", "a", "i", "r", "e">>,
    <<"c", "h", "a", "p", "i", "t", "r", "e">>,
    <<"s", "e", "c", "t", "i", "o", "n">>,
    <<"a", "n", "n", "e", "x", "e">>,
    <<"b", "i", "b", "l", "i", "o", "g", "r", "a", "p", "h", "i", "e">>,
    <<"i", "n", "d", "e", "x">>,
    <<"m", "U00E9", "t", "h", "o", "d", "o", "l", "o", "g", "i", "e">>,
    <<"r", "U00E9", "s", "u", "l", "t", "a", "t", "s">>,
    <<"d", "i", "s", "c", "u", "s", "s", "i", "o", "n">>,
    <<"c", "o", "n", "c", "l", "u", "s", "i", "o", "n", "s">>,
    <<"a", "n", "a", "l", "y", "s", "e">>
   },
   german |-> {
    <<"e", "i", "n", "f", "U00FC", "h", "r", "u", "n", "g">>,
    <<"h", "i", "n", "t", "e", "r", "g", "r", "u", "n", "d">>,
    <<"z", "u", "s", "a", "m", "m", "e", "n", "f", "a", "s", "s", "u", "n", "g">>,
    <<"s", "c", "h", "l", "u", "s", "s", "f", "o", "l", "g", "e", "r", "u", "n", "g">>,
    <<"r", "e", "f", "e", "r", "e", "n", "z", "e", "n">>,
    <<"d", "a", "n", "k", "s", "a", "g", "u", "n", "g", "e", "n">>,
    <<"U00FC", "b", "e", "r", "b", "l", "i", "c", "k">>,
    <<"a", "b", "s", "t", "r", "a", "k", "t">>,
    <<"v", "o", "r", "w", "o", "r", "t">>,
    <<"i", "n", "h", "a", "l", "t">>,
    <<"k", "a", "p", "i", "t", "e", "l">>,
    <<"a", "b", "s", "c", "h", "n", "i", "t", "t">>,
    <<"a", "n", "h", "a", "n", "g">>,
    <<"b", "i", "b", "l", "i", "o", "g", "r", "a", "p", "h", "i", "e">>,
    <<"i", "n", "d", "e", "x">>,
    <<"m", "e", "t", "h", "o", "d", "i", "k">>,
    <<"e", "r", "g", "e", "b", "n", "i", "s", "s", "e">>,
    <<"d", "i", "s", "k", "u", "s", "s", "i", "o", "n">>,
    <<"e", "r", "k", "e", "n", "n", "t", "n", "i", "s", "s", "e">>,
    <<"a", "n", "a", "l", "y", "s", "e">>
   },
   italian |-> {
    <<"i", "n", "t", "r", "o", "d", "u", "z", "i", "o", "n", "e">>,
    <<"b", "a", "c", "k", "g", "r", "o", "u", "n", "d">>,
    <<"r", "i", "a", "s", "s", "u", "n", "t", "o">>,
    <<"c", "o", "n", "c", "l", "u", "s", "i", "o", "n", "e">>,
    <<"r", "i", "f", "e", "r", "i", "m", "e", "n", "t", "i">>,
    <<"r", "i", "n", "g", "r", "a", "z", "i", "a", "m", "e", "n", "t", "i">>,
    <<"p", "a", "n", "o", "r", "a", "m", "i", "c", "a">>,
    <<"e", "s", "t", "r", "a", "t", "t", "o">>,
    <<"p", "r", "e", "f", "a", "z", "i", "o", "n", "e">>,
    <<"c", "o", "n", "t", "e", "n", "u", "t", "i">>,
    <<"c", "a", "p", "i", "t", "o", "l", "o">>,
    <<"s", "e", "z", "i", "o", "n", "e">>,
    <<"a", "p", "p", "e", "n", "d", "i", "c", "e">>,
    <<"b", "i", "b", "l", "i", "o", "g", "r", "a", "f", "i", "a">>,
    <<"i", "n", "d", "i", "c", "e">>,
    <<"m", "e", "t", "o", "d", "o", "l", "o", "g", "i", "a">>,
    <<"r", "i", "s", "u", "l", "t", "a", "t", "i">>,
    <<"d", "i", "s", "c", "u", "s", "s", "i", "o", "n", "e">>,
    <<"a", "n", "a", "l", "i", "s", "i">>
   },
   portuguese |-> {
    <<"i", "n", "t", "r", "o", "d", "u", "U00E7", "U00E3", "o">>,
    <<"a", "n", "t", "e", "c", "e", "d", "e", "n", "t", "e", "s">>,
    <<"r", "e", "s", "u", "m", "o">>,
    <<"c", "o", "n", "c", "l", "u", "s", "U00E3", "o">>,
    <<"r", "e", "f", "e", "r", "U00EA", "n", "c", "i", "a", "s">>,
    <<"a", "g", "r", "a", "d", "e", "c", "i", "m", "e", "n", "t", "o", "s">>,
    <<"v", "i", "s", "U00E3", "o", " ", "g", "e", "r", "a", "l">>,
    <<"p", "r", "e", "f", "U00E1", "c", "i", "o">>,
    <<"c", "o", "n", "t", "e", "U00FA", "d", "o">>,
    <<"c", "a", "p", "U00ED", "t", "u", "l", "o">>,
    <<"s", "e", "U00E7", "U00E3", "o">>,
    <<"a", "p", "U00EA", "n", "d", "i", "c", "e">>,
    <<"b", "i", "b", "l", "i", "o", "g", "r", "a", "f", "i", "a">>,
    <<"U00ED", "n", "d", "i", "c", "e">>,
    <<"m", "e", "t", "o", "d", "o", "l", "o", "g", "i", "a">>,
    <<"r", "e", "s", "u", "l", "t", "a", "d", "o", "s">>,
    <<"d", "i", "s", "c", "u", "s", "s", "U00E3", "o">>,
    <<"d", "e", "s", "c", "o", "b", "e", "r", "t", "a", "s">>,
    <<"a", "n", "U00E1", "l", "i", "s", "e">>
   },
   dutch |-> {
    <<"i", "n", "l", "e", "i", "d", "i", "n", "g">>,
    <<"a", "c", "h", "t", "e", "r", "g", "r", "o", "n", "d">>,
    <<"s", "a", "m", "e", "n", "v", "a", "t", "t", "i", "n", "g">>,
    <<"c", "o", "n", "c", "l", "u", "s", "i", "e">>,
    <<"r", "e", "f", "e", "r", "e", "n", "t", "i", "e", "s">>,
    <<"d", "a", "n", "k", "w", "o", "o", "r", "d">>,
    <<"o", "v", "e", "r", "z", "i", "c", "h", "t">>,
    <<"a", "b", "s", "t", "r", "a", "c", "t">>,
    <<"v", "o", "o", "r", "w", "o", "o", "r", "d">>,
    <<"i", "n", "h", "o", "u", "d">>,
    <<"h", "o", "o", "f", "d", "s", "t", "u", "k">>,
    <<"s", "e", "c", "t", "i", "e">>,
    <<"b", "i", "j", "l", "a", "g", "e">>,
    <<"b", "i", "b", "l", "i", "o", "g", "r", "a", "f", "i", "e">>,
    <<"i", "n", "d", "e", "x">>,
    <<"m", "e", "t", "h", "o", "d", "o", "l", "o", "g", "i", "e">>,
    <<"r", "e", "s", "u", "l", "t", "a", "t", "e", "n">>,
    <<"d", "i", "s", "c", "u", "s", "s", "i", "e">>,
    <<"b", "e", "v", "i", "n", "d", "i", "n", "g", "e", "n">>,
    <<"a", "n", "a", "l", "y", "s", "e">>
   },
   russian |-> {
    <<"U0432", "U0432", "U0435", "U0434", "U0435", "U043D", "U0438", "U0435">>,
    <<"U043F", "U0440", "U0435", "U0434", "U043F", "U043E", "U0441", "U044B", "U043B", "U043A", "U0438">>,
    <<"U0440", "U0435", "U0437", "U044E", "U043C", "U0435">>,
    <<"U0437", "U0430", "U043A", "U043B", "U044E", "U0447", "U0435", "U043D", "U0438", "U0435">>,
    <<"U0441", "U0441", "U044B", "U043B", "U043A", "U0438">>,
    <<"U0431", "U043B", "U0430", "U0433", "U043E", "U0434", "U0430", "U0440", "U043D", "U043E", "U0441", "U0442", "U0438">>,
    <<"U043E", "U0431", "U0437", "U043E", "U0440">>,
    <<"U0430", "U043D", "U043D", "U043E", "U0442", "U0430", "U0446", "U0438", "U044F">>,
    <<"U043F", "U0440", "U0435", "U0434", "U0438", "U0441", "U043B", "U043E", "U0432", "U0438", "U0435">>,
    <<"U0441", "U043E", "U0434", "U0435", "U0440", "U0436", "U0430", "U043D", "U0438", "U0435">>,
    <<"U0433", "U043B", "U0430", "U0432", "U0430">>,
    <<"U0440", "U0430", "U0437", "U0434", "U0435", "U043B">>,
    <<"U043F", "U0440", "U0438", "U043B", "U043E", "U0436", "U0435", "U043D", "U0438", "U0435">>,
    <<"U0431", "U0438", "U0431", "U043B", "U0438", "U043E", "U0433", "U0440", "U0430", "U0444", "U0438", "U044F">>,
    <<"U0438", "U043D", "U0434", "U0435", "U043A", "U0441">>,
    <<"U043C", "U0435", "U0442", "U043E", "U0434", "U043E", "U043B", "U043E", "U0433", "U0438", "U044F">>,
    <<"U0440", "U0435", "U0437", "U0443", "U043B", "U044C", "U0442", "U0430", "U0442", "U044B">>,
    <<"U043E", "U0431", "U0441", "U0443", "U0436", "U0434", "U0435", "U043D", "U0438", "U0435">>,
    <<"U0432", "U044B", "U0432", "U043E", "U0434", "U044B">>,
    <<"U0430", "U043D", "U0430", "U043B", "U0438", "U0437">>
   },
   chinese |-> {
    <<"U4ECB", "U7ECD">>,
    <<"U80CC", "U666F">>,
    <<"U6458", "U8981">>,
    <<"U7ED3", "U8BBA">>,
    <<"U53C2", "U8003", "U6587", "U732E">>,
    <<"U81F4", "U8C22">>,
    <<"U6982", "U8FF0">>,
    <<"U524D", "U8A00">>,
    <<"U76EE", "U5F55">>,
    <<"U7AE0", "U8282">>,
    <<"U90E8", "U5206">>,
    <<"U9644", "U5F55">>,
    <<"U53C2", "U8003", "U4E66", "U76EE">>,
    <<"U7D22", "U5F15">>,
    <<"U65B9", "U6CD5", "U8BBA">>,
    <<"U7ED3", "U679C">>,
    <<"U8BA8", "U8BBA">>,
    <<"U53D1", "U73B0">>,
    <<"U5206", "U6790">>,
    <<"U5F15", "U8A00">>,
    <<"U603B", "U7ED3">>,
    <<"U6982", "U8981">>,
    <<"U5E8F", "U8A00">>
   },
   japanese |-> {
    <<"U7D39", "U4ECB">>,
    <<"U80CC", "U666F">>,
    <<"U8981", "U7D04">>,
    <<"U7D50", "U8AD6">>,
    <<"U53C2", "U8003", "U6587", "U732E">>,
    <<"U8B1D", "U8F9E">>,
    <<"U6982", "U8981">>,
    <<"U6284", "U9332">>,
    <<"U5E8F", "U6587">>,
    <<"U76EE", "U6B21">>,
    <<"U7AE0">>,
    <<"U30BB", "U30AF", "U30B7", "U30E7", "U30F3">>,
    <<"U4ED8", "U9332">>,
    <<"U66F8", "U8A8C">>,
    <<"U7D22", "U5F15">>,
    <<"U65B9", "U6CD5", "U8AD6">>,
    <<"U7D50", "U679C">>,
    <<"U8B70", "U8AD6">>,
    <<"U767A", "U898B">>,
    <<"U5206", "U6790">>,
    <<"U306F", "U3058", "U3081", "U306B">>,
    <<"U307E", "U3068", "U3081">>,
    <<"U6982", "U89B3">>,
    <<"U5E8F", "U7AE0">>
   },
   korean |-> {
    <<"UC18C", "UAC1C">>,
    <<"UBC30", "UACBD">>,
    <<"UC694", "UC57D">>,
    <<"UACB0", "UB860">>,
    <<"UCC38", "UC870">>,
    <<"UAC10", "UC0AC", "UC758", " ", "UB9D0">>,
    <<"UAC1C", "UC694">>,
    <<"UCD08", "UB85D">>,
    <<"UC11C", "UBB38">>,
    <<"UBAA9", "UCC28">>,
    <<"UC7A5">>,
    <<"UC139", "UC158">>,
    <<"UBD80", "UB85D">>,
    <<"UCC38", "UACE0", "UBB38", "UD5CC">>,
    <<"UC0C9", "UC778">>,
    <<"UBC29", "UBC95", "UB860">>,
    <<"UACB0", "UACFC">>,
    <<"UD1A0", "UB860">>,
    <<"UBC1C", "UACAC">>,
    <<"UBD84", "UC11D">>,
    <<"UC11C", "UB860">>,
    <<"UC815", "UB9AC">>,
    <<"UAC1C", "UAD00">>,
    <<"UBA38", "UB9AC", "UB9D0">>
   },
   arabic |-> {
    <<"U0645", "U0642", "U062F", "U0645", "U0629">>,
    <<"U062E", "U0644", "U0641", "U064A", "U0629">>,
    <<"U0645", "U0644", "U062E", "U0635">>,
    <<"U062E", "U0627", "U062A", "U0645", "U0629">>,
    <<"U0645", "U0631", "U0627", "U062C", "U0639">>,
    <<"U0634", "U0643", "U0631", " ", "U0648", "U062A", "U0642", "U062F", "U064A", "U0631">>,
    <<"U0646", "U0638", "U0631", "U0629", " ", "U0639", "U0627", "U0645", "U0629">>,
    <<"U0645", "U0633", "U062A", "U062E", "U0644", "U0635">>,
    <<"U062A", "U0645", "U0647", "U064A", "U062F">>,
    <<"U0645", "U062D", "U062A", "U0648", "U064A", "U0627", "U062A">>,
    <<"U0641", "U0635", "U0644">>,
    <<"U0642", "U0633", "U0645">>,
    <<"U0645", "U0644", "U062D", "U0642">>,
    <<"U0628", "U0628", "U0644", "U064A", "U0648", "U063A", "U0631", "U0627", "U0641", "U064A", "U0627">>,
    <<"U0641", "U0647", "U0631", "U0633">>,
    <<"U0645", "U0646", "U0647", "U062C", "U064A", "U0629">>,
    <<"U0646", "U062A", "U0627", "U0626", "U062C">>,
    <<"U0645", "U0646", "U0627", "U0642", "U0634", "U0629">>,
    <<"U0627", "U0633", "U062A", "U0646", "U062A", "U0627", "U062C", "U0627", "U062A">>,
    <<"U062A", "U062D", "U0644", "U064A", "U0644">>
   },
   hindi |-> {
    <<"U092A", "U0930", "U093F", "U091A", "U092F">>,
    <<"U092A", "U0943", "U0937", "U094D", "U0920", "U092D", "U0942", "U092E", "U093F">>,
    <<"U0938", "U093E", "U0930", "U093E", "U0902", "U0936">>,
    <<"U0928", "U093F", "U0937", "U094D", "U0915", "U0930", "U094D", "U0937">>,
    <<"U0938", "U0902", "U0926", "U0930", "U094D", "U092D">>,
    <<"U0906", "U092D", "U093E", "U0930">>,
    <<"U0905", "U0935", "U0932", "U094B", "U0915", "U0928">>,
    <<"U0938", "U093E", "U0930">>,
    <<"U092A", "U094D", "U0930", "U0938", "U094D", "U0924", "U093E", "U0935", "U0928", "U093E">>,
    <<"U0935", "U093F", "U0937", "U092F", "-", "U0938", "U0942", "U091A", "U0940">>,
    <<"U0905", "U0927", "U094D", "U092F", "U093E", "U092F">>,
    <<"U0916", "U0902", "U0921">>,
    <<"U092A", "U0930", "U093F", "U0936", "U093F", "U0937", "U094D", "U091F">>,
    <<"U0917", "U094D", "U0930", "U0902", "U0925", "-", "U0938", "U0942", "U091A", "U0940">>,
    <<"U0938", "U0942", "U091A", "U0915", "U093E", "U0902", "U0915">>,
    <<"U0915", "U093E", "U0930", "U094D", "U092F", "U092A", "U094D", "U0930", "U0923", "U093E", "U0932", "U0940">>,
    <<"U092A", "U0930", "U093F", "U0923", "U093E", "U092E">>,
    <<"U091A", "U0930", "U094D", "U091A", "U093E">>,
    <<"U0935", "U093F", "U0936", "U094D", "U0932", "U0947", "U0937", "U0923">>
   }
  ]

all_header_keywords == UNION {header_keywords[lang] : lang \in DOMAIN header_keywords}

\* one atom of a numbering pattern: a character class and its repetition
Atom(cls, rep) == [cls |-> cls, rep |-> rep]

NumberingTail == <<Atom({"."}, "one"), Atom(Whitespace, "star")>>

ParenTail == <<Atom({")"}, "one"), Atom(Whitespace, "star")>>

\* numbering_patterns, in list order
numbering_patterns ==
  << <<Atom(DecimalDigits, "plus")>> \o NumberingTail,
     <<Atom(DecimalDigits, "plus"), Atom({"."}, "one"), Atom(DecimalDigits, "plus"),
       Atom(Whitespace, "star")>>,
     <<Atom(DecimalDigits, "plus"), Atom({"."}, "one"), Atom(DecimalDigits, "plus"),
       Atom({"."}, "one"), Atom(DecimalDigits, "plus"), Atom(Whitespace, "star")>>,
     <<Atom(DecimalDigits, "plus")>> \o ParenTail,
     <<Atom({"("}, "one"), Atom(DecimalDigits, "plus")>> \o ParenTail,
     <<Atom({"I", "V", "X"}, "plus")>> \o NumberingTail,
     <<Atom({"i", "v", "x"}, "plus")>> \o NumberingTail,
     <<Atom({"I", "V", "X"}, "plus")>> \o ParenTail,
     <<Atom({"i", "v", "x"}, "plus")>> \o ParenTail,
     <<Atom(Range(LatinUpper), "one")>> \o NumberingTail,
     <<Atom(Range(LatinLower), "one")>> \o NumberingTail,
     <<Atom(Range(LatinUpper), "one")>> \o ParenTail,
     <<Atom(Range(LatinLower), "one")>> \o ParenTail,
     <<Atom(ChineseNumerals, "plus"), Atom({"U3001", "."}, "one"), Atom(Whitespace, "star")>>,
     <<Atom(ArabicIndicDigits, "plus")>> \o NumberingTail,
     <<Atom(DevanagariDigits, "plus")>> \o NumberingTail >>

(* ----------------- MultilingualTextProcessor: operations ---------------- *)

\* the value None of extract_multilingual_numbering (pattern 0: no pattern matched)
None == [numbering |-> <<>>, text_without_numbering |-> <<>>, pattern |-> 0]

\* canonical decomposition followed by canonical ordering of combining marks
RECURSIVE CanonicalOrder(_)
CanonicalOrder(s) ==
  LET ccc(c) == IF c \in DOMAIN CombiningClass THEN CombiningClass[c] ELSE 0
      bad == {i \in 1..(Len(s) - 1) : ccc(s[i + 1]) > 0 /\ ccc(s[i]) > ccc(s[i + 1])}
  IN  IF bad = {} THEN s
      ELSE LET i == CHOOSE k \in bad : \A m \in bad : k <= m
           IN  CanonicalOrder([k \in DOMAIN s |->
                                 IF k = i THEN s[i + 1] ELSE IF k = i + 1 THEN s[i] ELSE s[k]])

\* each character replaced by its canonical decomposition, the text taken by halves
RECURSIVE Decompose(_)
Decompose(s) ==
  IF s = <<>> THEN <<>>
  ELSE IF Len(s) = 1
  THEN (IF s[1] \in DOMAIN Decomposition THEN Decomposition[s[1]] ELSE s)
  ELSE Decompose(SubSeq(s, 1, Len(s) \div 2)) \o Decompose(SubSeq(s, (Len(s) \div 2) + 1, Len(s)))

NFD(s) == CanonicalOrder(Decompose(s))

\* re.sub(r'\s+', ' ', s).strip()
CollapseWhitespace(s) ==
  strip(SelectSeq([i \in DOMAIN s |->
                     IF s[i] \in Whitespace
                     THEN (IF i > 1 /\ s[i - 1] \in Whitespace THEN "DROP" ELSE " ")
                     ELSE s[i]],
                  LAMBDA c : c # "DROP"))

normalize_text(text) ==
  IF text = <<>> THEN <<>>
  ELSE CollapseWhitespace(SelectSeq(NFD(text), LAMBDA c : c \notin ZeroWidth))

\* the number of characters of text in cls (len(pattern.findall(text)))
CountIn(text, cls) == Cardinality({i \in DOMAIN text : text[i] \in cls})

\* the last script of the table among those with the highest count: the choice that
\* C21 must tell from the one that max() makes
DetectLastHighest(text) ==
  IF strip(text) = <<>> THEN "unknown"
  ELSE LET t == strip(text)
           script_scores == [i \in DOMAIN script_patterns |-> CountIn(t, script_patterns[i].chars)]
           best == CHOOSE i \in DOMAIN script_patterns :
                     /\ \A j \in DOMAIN script_patterns : script_scores[j] <= script_scores[i]
                     /\ \A j \in (i + 1)..Len(script_patterns) : script_scores[j] < script_scores[i]
       IN  IF \A i \in DOMAIN script_patterns : script_scores[i] = 0 THEN "unknown"
           ELSE IF script_scores[5] > 0 \/ script_scores[6] > 0 THEN "japanese"
           ELSE script_patterns[best].script

detect_text_language(text) ==
  IF strip(text) = <<>> THEN "unknown"
  ELSE LET t == strip(text)
           script_scores == [i \in DOMAIN script_patterns |-> CountIn(t, script_patterns[i].chars)]
           best == CHOOSE i \in DOMAIN script_patterns :
                     /\ \A j \in DOMAIN script_patterns : script_scores[j] <= script_scores[i]
                     /\ \A j \in 1..(i - 1) : script_scores[j] < script_scores[i]
       IN  IF \A i \in DOMAIN script_patterns : script_scores[i] = 0 THEN "unknown"
           ELSE IF script_scores[5] > 0 \/ script_scores[6] > 0 THEN "japanese"
           ELSE script_patterns[best].script

is_multilingual_header_keyword(text) ==
  LET normalized_text == normalize_text(lower(text))
  IN  \/ \E keyword \in all_header_keywords : Contains(normalized_text, keyword)
      \/ \E word \in Runs(normalized_text, WordChars) : word \in all_header_keywords

\* the end of the match of a pattern at the start of s (0 when it does not match)
RECURSIVE MatchAtoms(_, _, _)
MatchAtoms(atoms, s, pos) ==
  IF atoms = <<>> THEN pos
  ELSE LET a == Head(atoms)
           stop == {i \in pos..Len(s) : s[i] \notin a.cls}
           run == (IF stop = {} THEN Len(s) + 1
                   ELSE CHOOSE i \in stop : \A j \in stop : i <= j) - pos
       IN  CASE a.rep = "one" -> IF run >= 1 THEN MatchAtoms(Tail(atoms), s, pos + 1) ELSE 0
             [] a.rep = "plus" -> IF run >= 1 THEN MatchAtoms(Tail(atoms), s, pos + run) ELSE 0
             [] OTHER -> MatchAtoms(Tail(atoms), s, pos + run)

\* the first pattern of numbering_patterns that matches at the start of s (0: none does)
FirstPattern(s) ==
  LET hits == {p \in DOMAIN numbering_patterns : MatchAtoms(numbering_patterns[p], s, 1) > 0}
  IN  IF hits = {} THEN 0 ELSE CHOOSE p \in hits : \A q \in hits : p <= q

\* the dictionary returned for the match of pattern p: numbering is match.group(0).strip()
NumberingInfo(normalized_text, numbering, p) ==
  [numbering |-> numbering,
   text_without_numbering |->
     strip(SubSeq(normalized_text, Len(numbering) + 1, Len(normalized_text))),
   pattern |-> p]

\* the result of the loop over the patterns for the first pattern p that matches
MatchedNumbering(normalized_text, p) ==
  IF p = 0 THEN None
  ELSE NumberingInfo(normalized_text,
                     strip(SubSeq(normalized_text, 1,
                                  MatchAtoms(numbering_patterns[p], normalized_text, 1) - 1)),
                     p)

extract_multilingual_numbering(text) ==
  MatchedNumbering(normalize_text(text), FirstPattern(normalize_text(text)))

is_title_case_multilingual(text) ==
  IF text = <<>> THEN FALSE
  ELSE LET script == detect_text_language(text)
           words == WordStarts(text)
           uppercase_words == {i \in words : text[i] \in Range(UpperChars)}
       IN  CASE script \in {"latin", "cyrillic"} ->
                  /\ words # {}
                  /\ 10 * Cardinality(uppercase_words) >= 7 * Cardinality(words)
             [] script \in {"chinese", "japanese", "korean"} -> 5 <= Len(text) /\ Len(text) <= 80
             [] script = "arabic" ->
                  5 <= Len(text) /\ Len(text) <= 80 /\ text[Len(text)] # "."
             [] script = "devanagari" -> 5 <= Len(text) /\ Len(text) <= 80
             [] OTHER -> FALSE

is_all_caps_multilingual(text) ==
  IF text = <<>> THEN FALSE
  ELSE LET script == detect_text_language(text)
           letters == {i \in DOMAIN text : text[i] \in Letters}
           uppercase_letters == {i \in letters : text[i] \in Range(UpperChars)}
       IN  IF script \in {"latin", "cyrillic"}
           THEN letters # {} /\ 10 * Cardinality(uppercase_letters) >= 8 * Cardinality(letters)
           ELSE FALSE

\* str(e) of the ZeroDivisionError of font_size / dominant_font_size
ZeroDivisionError ==
  <<"f", "l", "o", "a", "t", " ", "d", "i", "v", "i", "s", "i", "o", "n",
    " ", "b", "y", " ", "z", "e", "r", "o">>

\* re.search(r'\b(page|copyright|version|\d{4}|(c))\b', s)
Blacklisted(s) ==
  \/ SearchWord(s, {<<"p", "a", "g", "e">>,
                    <<"c", "o", "p", "y", "r", "i", "g", "h", "t">>,
                    <<"v", "e", "r", "s", "i", "o", "n">>,
                    <<"U00A9">>})
  \/ \E i \in 1..(Len(s) - 3) :
       /\ \A k \in i..(i + 3) : s[k] \in DecimalDigits
       /\ WordBoundary(s, i)
       /\ WordBoundary(s, i + 4)

\* the font size factor, in tenths (size_ratio >= r/100 compared in integers)
SizeFactor(font_size, dominant_font_size) ==
  IF 100 * font_size >= 150 * dominant_font_size THEN 5
  ELSE IF 100 * font_size >= 130 * dominant_font_size THEN 4
  ELSE IF 100 * font_size >= 120 * dominant_font_size THEN 3
  ELSE IF 100 * font_size >= 110 * dominant_font_size THEN 2
  ELSE -1

\* the bonus for the numbering's complexity, by the count of its dots
NumberingBonus(numbering_info) ==
  IF numbering_info = None THEN 0
  ELSE CASE CountIn(numbering_info.numbering, {"."}) = 0 -> 3
         [] CountIn(numbering_info.numbering, {"."}) = 1 -> 6
         [] CountIn(numbering_info.numbering, {"."}) = 2 -> 5
         [] CountIn(numbering_info.numbering, {"."}) = 3 -> 4
         [] OTHER -> 0

\* if self.is_multilingual_header_keyword(normalized_text): score += 0.3
KeywordBonus(normalized_text) ==
  IF is_multilingual_header_keyword(normalized_text) THEN 3 ELSE 0

\* the bonuses and penalties of the normalized text, summed in tenths
ScoreSum(normalized_text, font_size, is_bold, dominant_font_size) ==
  SizeFactor(font_size, dominant_font_size)
  + (IF is_bold THEN 4 ELSE 0)
  + NumberingBonus(extract_multilingual_numbering(normalized_text))
  + KeywordBonus(normalized_text)
  + (IF is_title_case_multilingual(normalized_text) THEN 3 ELSE 0)
  + (IF /\ is_all_caps_multilingual(normalized_text)
        /\ 5 <= Len(normalized_text) /\ Len(normalized_text) <= 50
     THEN 4 ELSE 0)
  + (IF normalized_text # <<>> /\ normalized_text[Len(normalized_text)] = ":" THEN 3 ELSE 0)
  + (IF Len(normalized_text) > 120 THEN -2 ELSE 0)
  + (IF CountIn(normalized_text, {","}) > 2 THEN -2 ELSE 0)
  + (IF Blacklisted(lower(normalized_text)) THEN -3 ELSE 0)

\* the sum returned as it is: the slip that C6 must tell from the clamp
NoClamp(score) == score

\* max(0.0, min(score, 1.0)), in tenths
Clamp(score) == IF score < 0 THEN 0 ELSE IF score > 10 THEN 10 ELSE score

\* [raised, score]: the score in tenths, unless the division raised
calculate_multilingual_header_score(text, font_size, is_bold, dominant_font_size) ==
  IF text = <<>> THEN [raised |-> FALSE, score |-> 0]
  ELSE IF dominant_font_size = 0 THEN [raised |-> TRUE, score |-> 0]
  ELSE [raised |-> FALSE,
        score |-> Clamp(ScoreSum(normalize_text(text), font_size, is_bold,
                                 dominant_font_size))]

get_language_info(text) ==
  [script |-> detect_text_language(text),
   normalized_text |-> normalize_text(text),
   has_numbering |-> extract_multilingual_numbering(text) # None,
   has_header_keywords |-> is_multilingual_header_keyword(text),
   is_title_case |-> is_title_case_multilingual(text),
   is_all_caps |-> is_all_caps_multilingual(text)]
(* --------------------------- the input universe ------------------------- *)

\* the most spans a document holds besides a run of numbered sections
MaxFree == 2

\* the length of the run of numbered sections "k. Scope of work" of a long document
BulkN == 42

\* the most free spans of a long document
MaxFreeWithBulk == 1

\* the most spans of a document whose metadata ranges over every modelled title
MaxTitleSpans == 1

DigitChars == <<"0", "1", "2", "3", "4", "5", "6", "7", "8", "9">>

\* str(k) for 0 <= k < 100
Decimal(k) ==
  IF k < 10 THEN <<DigitChars[k + 1]>>
  ELSE <<DigitChars[(k \div 10) + 1], DigitChars[(k % 10) + 1]>>

\* a text of n characters
Filler(n) == [i \in 1..n |-> "x"]

SpanTexts ==
  { <<"P", "a", "g", "e", " ", "3">>,
    <<"1", "2">>,
    <<"3">>,
    <<"N", "a", "m", "e", ":">>,
    <<"S", "u", "m", "m", "a", "r", "y", " ">>,
    <<"S", "U", "M", "M", "A", "R", "Y">>,
    <<"s", "e", "e", " ", "n", "o", "t", "e", "s", " ", "b", "e", "l", "o", "w">> }

BulkText(k) ==
  Decimal(k) \o <<".", " ", "S", "c", "o", "p", "e", " ", "o", "f", " ", "w", "o", "r", "k">>

FontSizes == {10, 16}

YPositions == {100, 600}

\* a span of page.get_text("dict"): text, size, the bold flag (flags & 2**4), bbox[1]
FreeSpans ==
  [text : SpanTexts, size : FontSizes, bold : BOOLEAN, y : YPositions]
  \cup [text : {<<"S", "u", "m", "m", "a", "r", "y", " ">>,
                <<"s", "e", "e", " ", "n", "o", "t", "e", "s", " ", "b", "e", "l", "o", "w">>},
        size : {0}, bold : {FALSE}, y : {100}]

BulkSpans == [k \in 1..BulkN |-> [text |-> BulkText(k), size |-> 10, bold |-> FALSE, y |-> 600]]

SpanSeqs(n) == UNION {[1..m -> FreeSpans] : m \in 0..n}

\* a document is its pages, each the spans of the page in reading order
Documents ==
  UNION {{<<p1, p2>> : p1 \in [1..n1 -> FreeSpans], p2 \in [1..n2 -> FreeSpans]} :
           <<n1, n2>> \in {nn \in (0..MaxFree) \X (0..MaxFree) : nn[1] + nn[2] <= MaxFree}}
  \cup {<<p1, BulkSpans>> : p1 \in SpanSeqs(MaxFreeWithBulk)}
  \cup {<<p1 \o BulkSpans, <<>>>> : p1 \in SpanSeqs(MaxFreeWithBulk)}
  \cup {<<BulkSpans \o p1, <<>>>> : p1 \in SpanSeqs(MaxFreeWithBulk) \ {<<>>}}

\* doc.metadata: None, or a dictionary whose title is a text ("" when there is none)
NoMetadata == [present |-> FALSE, title |-> <<>>]

Metadata(title) == [present |-> TRUE, title |-> title]

BasicMetadatas ==
  { Metadata(<<>>),
    Metadata(<<" ", "A", "n", "n", "u", "a", "l", " ", "R", "e", "p", "o", "r", "t",
               " ", "2", "0", "2", "4", " ">>) }

AllMetadatas ==
  BasicMetadatas
  \cup { NoMetadata,
         Metadata(<<" ", " ">>),
         Metadata(<<"F", "A", "Q">>),
         Metadata(<<"M", "e", "m", "o">>),
         Metadata(Filler(299)),
         Metadata(<<" ">> \o Filler(300)),
         Metadata(Filler(301)) }

PdfPaths ==
  { <<"a", "n", "n", "u", "a", "l", "_", "r", "e", "p", "o", "r", "t", ".", "p", "d", "f">>,
    <<"_", ".", "p", "d", "f">> }

\* str(e) of what fitz.open raises on a file it cannot read; a MemoryError has no message
OpenErrors ==
  { <<"c", "a", "n", "n", "o", "t", " ", "o", "p", "e", "n", " ", "b", "r", "o", "k", "e", "n",
      " ", "d", "o", "c", "u", "m", "e", "n", "t">>,
    <<>> }

\* the texts of the fragments that the header step is applied to on its own
HeaderTexts ==
  { <<"1", ".", " ", "I", "n", "t", "r", "o", "d", "u", "c", "t", "i", "o", "n">>,
    <<"1", "2", ".", " ", "S", "c", "o", "p", "e", " ", "o", "f", " ", "w", "o", "r", "k">>,
    <<"1", ".", " ", "C", "o", "p", "y", "r", "i", "g", "h", "t", " ", "2", "0", "2", "4", ",",
      " ", "a", ",", " ", "b", ",", " ", "c">>,
    <<"1", ".", "1", " ", "B", "a", "c", "k", "g", "r", "o", "u", "n", "d">>,
    <<"2", ".", "3", ".", " ", "M", "e", "t", "h", "o", "d", "s">>,
    <<"1", ".", "1", ".", "1", " ", "S", "c", "o", "p", "e">>,
    <<"I", "n", "t", "r", "o", "d", "u", "c", "t", "i", "o", "n">>,
    <<"s", "e", "e", " ", "n", "o", "t", "e", "s", " ", "b", "e", "l", "o", "w">> }

HeaderSizes == {0, 10, 14, 18}

\* the texts of the elements: the stripped span texts
ElementTexts ==
  {strip(s.text) : s \in FreeSpans} \cup {BulkText(k) : k \in 1..BulkN} \cup HeaderTexts

(* ------------------ memoised calls of the text processor ---------------- *)

\* self.multilingual_processor applied to each element text, evaluated once
processor ==
  [text \in ElementTexts |->
     [normalize_text |-> normalize_text(text),
      get_language_info |-> get_language_info(text),
      extract_multilingual_numbering |-> extract_multilingual_numbering(text),
      is_multilingual_header_keyword |-> is_multilingual_header_keyword(text),
      is_title_case_normalized |-> is_title_case_multilingual(normalize_text(text)),
      dedup_key |-> normalize_text(lower(text))]]
  @@ <<>>

header_score ==
  [args \in ElementTexts \X (FontSizes \cup {0}) \X BOOLEAN \X (FontSizes \cup {0}) |->
     calculate_multilingual_header_score(args[1], args[2], args[3], args[4])]
  @@ <<>>

(* --------------------- GroundTruthAlignedExtractor ---------------------- *)

RECURSIVE Concat(_)
Concat(ss) == IF ss = <<>> THEN <<>> ELSE Head(ss) \o Concat(Tail(ss))

\* the order sorted() gives the indices 1..n of a list with these keys (a stable sort)
RECURSIVE SortedIndices(_, _)
SortedIndices(key, n) ==
  IF n = 0 THEN <<>>
  ELSE LET prev == SortedIndices(key, n - 1)
           pos == Cardinality({k \in DOMAIN prev : key[prev[k]] <= key[n]})
       IN  SubSeq(prev, 1, pos) \o <<n>> \o SubSeq(prev, pos + 1, n - 1)

Sorted(s, key) ==
  LET order == SortedIndices(key, Len(s))
  IN  [k \in DOMAIN s |-> s[order[k]]]

\* max(counts.keys(), key=...) over the keys in insertion order: the first of the most frequent
FirstMostCommon(keys) ==
  LET values == Range(keys)
      count == [v \in values |-> Cardinality({i \in DOMAIN keys : keys[i] = v})]
      first == [v \in values |-> CHOOSE i \in DOMAIN keys :
                                   keys[i] = v /\ \A j \in 1..(i - 1) : keys[j] # v]
  IN  CHOOSE v \in values : \A w \in values \ {v} :
        count[v] > count[w] \/ (count[v] = count[w] /\ first[v] < first[w])

\* re.search(r'\b(page|...)\b', s): the other alternatives of the pattern are
\* byte sequences of a wrongly decoded source file and match no text of the model
PageWord(s) == SearchWord(s, {<<"p", "a", "g", "e">>})

\* re.match(r'^page\s+\d+', s)
PageNumber(s) ==
  MatchAtoms(<<Atom({"p"}, "one"), Atom({"a"}, "one"), Atom({"g"}, "one"), Atom({"e"}, "one"),
               Atom(Whitespace, "plus"), Atom(DecimalDigits, "plus")>>, s, 1) > 0

\* a slice that forgets its limit: the slip that C1 must tell from s[:n]
TakeAll(s, n) == s

\* s[:n]
Take(s, n) == SubSeq(s, 1, IF Len(s) < n THEN Len(s) ELSE n)

\* the element with the page counted from 0: the slip that C20 must tell from
\* 'page': page_num + 1
ElementFromPage0(span, text, p, calls) ==
  [text |-> text,
   normalized_text |-> calls.normalize_text,
   page |-> p - 1,
   font_size |-> span.size,
   is_bold |-> span.bold,
   y_pos |-> span.y,
   language_info |-> calls.get_language_info]

\* the element of a span on page p: text is span["text"].strip(), calls holds what
\* the processor returns for text
Element(span, text, p, calls) ==
  [text |-> text,
   normalized_text |-> calls.normalize_text,
   page |-> p,
   font_size |-> span.size,
   is_bold |-> span.bold,
   y_pos |-> span.y,
   language_info |-> calls.get_language_info]

\* the elements built from the spans of every page
all_text_elements(doc) ==
  Concat([p \in DOMAIN doc |->
            SelectSeq([i \in DOMAIN doc[p] |->
                         Element(doc[p][i], strip(doc[p][i].text), p,
                                 processor[strip(doc[p][i].text)])],
                      LAMBDA elem : Len(elem.text) > 1)])

\* re.match(r'^[^\s]+\s*[:\-_]\s*$', text)
FieldLabel(text) ==
  \E k \in DOMAIN text : \E m \in (k + 1)..Len(text) :
    /\ \A i \in 1..k : text[i] \notin Whitespace
    /\ \A i \in (k + 1)..(m - 1) : text[i] \in Whitespace
    /\ text[m] \in {":", "-", "_"}
    /\ \A i \in (m + 1)..Len(text) : text[i] \in Whitespace

\* the element counts as a form field
FormField(elem) ==
  /\ Len(elem.normalized_text) < 50
  /\ \/ (elem.normalized_text # <<>> /\ elem.normalized_text[Len(elem.normalized_text)] = ":")
     \/ FieldLabel(elem.normalized_text)
     \/ processor[elem.text].is_title_case_normalized

\* a label cut at 4 characters instead of 40: the slip that C13 must tell from the count
ShortLabelUnder4(elem) ==
  Len(elem.normalized_text) < 4 /\ ":" \in Range(elem.text)

\* len(elem['normalized_text']) < 40 and ':' in elem['text']
ShortLabel(elem) ==
  Len(elem.normalized_text) < 40 /\ ":" \in Range(elem.text)

\* the classification with the test for a structured document placed before the test
\* for a simple document: the order that C22 must tell from the code's
StructuredFirst(text_elements) ==
  LET n == Len(text_elements)
      short_labels_with_colons ==
        Cardinality({i \in DOMAIN text_elements : ShortLabel(text_elements[i])})
      single_words ==
        Cardinality({i \in DOMAIN text_elements :
                       Cardinality(WordStarts(text_elements[i].normalized_text)) <= 2})
  IN  IF n = 0 THEN "unknown"
      ELSE IF \/ /\ 100 * short_labels_with_colons > 25 * n
                 /\ 100 * Cardinality({i \in DOMAIN text_elements :
                                         FormField(text_elements[i])}) > 15 * n
              \/ 100 * short_labels_with_colons > 35 * n
      THEN "form"
      ELSE IF Cardinality({i \in DOMAIN text_elements :
                  processor[text_elements[i].text].extract_multilingual_numbering # None}) > 8
      THEN "structured_document"
      ELSE IF n < 100 /\ 10 * single_words > 5 * n THEN "simple_document"
      ELSE IF 10 * single_words > 6 * n THEN "table_heavy"
      ELSE "document"

_determine_document_type_multilingual(text_elements) ==
  LET n == Len(text_elements)
      short_labels_with_colons ==
        Cardinality({i \in DOMAIN text_elements : ShortLabel(text_elements[i])})
      single_words ==
        Cardinality({i \in DOMAIN text_elements :
                       Cardinality(WordStarts(text_elements[i].normalized_text)) <= 2})
  IN  IF n = 0 THEN "unknown"
      ELSE IF \/ /\ 100 * short_labels_with_colons > 25 * n
                 /\ 100 * Cardinality({i \in DOMAIN text_elements :
                                         FormField(text_elements[i])}) > 15 * n
              \/ 100 * short_labels_with_colons > 35 * n
      THEN "form"
      ELSE IF n < 100 /\ 10 * single_words > 5 * n THEN "simple_document"
      ELSE IF Cardinality({i \in DOMAIN text_elements :
                  processor[text_elements[i].text].extract_multilingual_numbering # None}) > 8
      THEN "structured_document"
      ELSE IF 10 * single_words > 6 * n THEN "table_heavy"
      ELSE "document"

_has_numbered_sections_multilingual(text_elements) ==
  Cardinality({i \in DOMAIN text_elements :
                 processor[text_elements[i].text].extract_multilingual_numbering # None}) >= 3

_has_hierarchical_structure(text_elements) ==
  LET font_sizes == {text_elements[i].font_size : i \in DOMAIN text_elements}
  IN  /\ Cardinality(font_sizes) >= 2
      /\ \E a \in font_sizes : \E b \in font_sizes :
           /\ b < a
           /\ \A c \in font_sizes : ~(b < c /\ c < a)
           /\ 10 * (a - b) >= 15

\* the skip by length alone: the slip that C10 must tell from the skip of TitleSkipped
SkippedByLength(elem) ==
  \/ Len(elem.normalized_text) < 2
  \/ Len(elem.normalized_text) > 300

\* the element is skipped as too short, too long or an obvious non-title
TitleSkipped(elem) ==
  \/ Len(elem.normalized_text) < 2
  \/ Len(elem.normalized_text) > 300
  \/ PageNumber(lower(elem.text))
  \/ (isdigit(elem.text) /\ Len(elem.text) < 3)
  \/ PageWord(lower(elem.normalized_text))

\* the score of an element as a title
TitleScore(elem, dominant_size) ==
  (IF elem.font_size > dominant_size + 2 THEN 4
   ELSE IF elem.font_size > dominant_size + 1 THEN 3
   ELSE IF elem.font_size > dominant_size THEN 2
   ELSE 0)
  + (IF elem.is_bold THEN 3 ELSE 0)
  + (IF elem.y_pos < 300 THEN 2 ELSE IF elem.y_pos < 500 THEN 1 ELSE 0)
  + (IF 5 <= Len(elem.normalized_text) /\ Len(elem.normalized_text) <= 150 THEN 1 ELSE 0)
  + (IF elem.language_info.is_title_case \/ elem.language_info.is_all_caps THEN 2 ELSE 0)
  + (IF processor[elem.text].is_multilingual_header_keyword THEN 1 ELSE 0)

\* the candidates of the elements that are not skipped, in the order of the elements
TitleCandidates(checked, dominant_size) ==
  SelectSeq([i \in DOMAIN checked |->
               [text |-> checked[i].text,
                score |-> TitleScore(checked[i], dominant_size),
                element |-> checked[i]]],
            LAMBDA candidate : candidate.score >= 2)

\* the candidates without the sort by y_pos: the first 20 elements in the order of the
\* document, the choice that C26 must tell from the topmost
CandidatesInDocumentOrder(first_page_elements, analysis) ==
  LET ByScore(candidates) == Sorted(candidates, [i \in DOMAIN candidates |-> -candidates[i].score])
  IN  ByScore(TitleCandidates(SelectSeq(Take(first_page_elements, 20),
                                        LAMBDA elem : ~TitleSkipped(elem)),
                              analysis.dominant_font_size))

_find_title_candidates_multilingual(first_page_elements, analysis) ==
  LET ByPosition(elements) == Sorted(elements, [i \in DOMAIN elements |-> elements[i].y_pos])
      ByScore(candidates) == Sorted(candidates, [i \in DOMAIN candidates |-> -candidates[i].score])
  IN  ByScore(TitleCandidates(SelectSeq(Take(ByPosition(first_page_elements), 20),
                                        LAMBDA elem : ~TitleSkipped(elem)),
                              analysis.dominant_font_size))

\* the levels counted from one dot less: the slip that C11 must tell from the level
DeeperLevel(dots) ==
  IF dots = 0 THEN "H1"
  ELSE IF dots = 1 THEN "H2"
  ELSE IF dots = 2 THEN "H3"
  ELSE "H4"

\* the level by the count of the dots of the numbering
NumberingLevel(dots) ==
  IF dots = 0 \/ dots = 1 THEN "H1"
  ELSE IF dots = 2 THEN "H2"
  ELSE IF dots = 3 THEN "H3"
  ELSE "H4"

\* the level by size_ratio, compared in integers: size_ratio >= r/100
SizeLevel(font_size, is_bold, dominant_size) ==
  IF \/ 100 * font_size >= 160 * dominant_size
     \/ (100 * font_size >= 140 * dominant_size /\ is_bold)
  THEN "H1"
  ELSE IF \/ 100 * font_size >= 130 * dominant_size
          \/ (100 * font_size >= 115 * dominant_size /\ is_bold)
  THEN "H2"
  ELSE IF 100 * font_size >= 110 * dominant_size \/ is_bold THEN "H3"
  ELSE "H4"

_determine_header_level_multilingual(elem, analysis) ==
  LET Level(numbering_info) ==
        IF numbering_info # None
        THEN NumberingLevel(CountIn(numbering_info.numbering, {"."}))
        ELSE SizeLevel(elem.font_size, elem.is_bold, analysis.dominant_font_size)
  IN  Level(processor[elem.text].extract_multilingual_numbering)

\* the element is skipped as too short, too long or an obvious non-header
HeaderSkipped(elem) ==
  \/ Len(elem.normalized_text) < 2
  \/ Len(elem.normalized_text) > 200
  \/ (isdigit(elem.text) /\ Len(elem.text) < 3)
  \/ PageWord(lower(elem.normalized_text))

\* a comparison that no document type satisfies: the slip that C3 must tell from the test
NeverForm(analysis) == FALSE

\* doc_type == 'form'
IsForm(analysis) == analysis.document_type = "form"

\* what calculate_multilingual_header_score does for the element: [raised, score]
ElementScore(elem, analysis) ==
  header_score[<<elem.text, elem.font_size, elem.is_bold, analysis.dominant_font_size>>]

\* the headers appended for the elements whose score is at least 0.5
AcceptedHeaders(scored, analysis) ==
  SelectSeq([i \in DOMAIN scored |->
               [text |-> scored[i].text,
                page |-> scored[i].page,
                level |-> _determine_header_level_multilingual(scored[i], analysis),
                score |-> ElementScore(scored[i], analysis).score,
                element |-> scored[i]]],
            LAMBDA header : header.score >= 5)

\* the loop over the elements that are not skipped: it raises when scoring one raises
ScoredHeaders(scored, analysis) ==
  IF \E i \in DOMAIN scored : ElementScore(scored[i], analysis).raised
  THEN [raised |-> TRUE, headers |-> <<>>]
  ELSE [raised |-> FALSE, headers |-> AcceptedHeaders(scored, analysis)]

\* [raised, headers]: the list of headers, unless scoring an element raised
_find_potential_headers_multilingual(text_elements, analysis) ==
  IF IsForm(analysis) THEN [raised |-> FALSE, headers |-> <<>>]
  ELSE ScoredHeaders(SelectSeq(text_elements, LAMBDA elem : ~HeaderSkipped(elem)), analysis)

\* a dictionary of counts after counting the keys
Counts(keys) == [k \in Range(keys) |-> Cardinality({i \in DOMAIN keys : keys[i] = k})]

\* the analysis of the elements before the title candidates and the headers are found
Counted(doc, elements) ==
  LET sizes == [i \in DOMAIN elements |-> elements[i].font_size]
      scripts == [i \in DOMAIN elements |-> elements[i].language_info.script]
  IN  [page_count |-> Len(doc),
       font_sizes |-> Counts(sizes),
       dominant_font_size |-> IF elements = <<>> THEN 10 ELSE FirstMostCommon(sizes),
       scripts |-> Counts(scripts),
       primary_script |-> IF elements = <<>> THEN "unknown" ELSE FirstMostCommon(scripts),
       has_mixed_scripts |-> Cardinality(Range(scripts) \ {"unknown"}) > 1,
       document_type |-> _determine_document_type_multilingual(elements),
       has_numbered_sections |-> _has_numbered_sections_multilingual(elements),
       has_hierarchical_structure |-> _has_hierarchical_structure(elements)]

\* the analysis with its title candidates and potential headers
Analysed(elements, counted) ==
  LET Filled(title_candidates, found) ==
        [raised |-> found.raised,
         analysis |-> [page_count |-> counted.page_count,
                       font_sizes |-> counted.font_sizes,
                       dominant_font_size |-> counted.dominant_font_size,
                       scripts |-> counted.scripts,
                       primary_script |-> counted.primary_script,
                       has_mixed_scripts |-> counted.has_mixed_scripts,
                       document_type |-> counted.document_type,
                       has_numbered_sections |-> counted.has_numbered_sections,
                       has_hierarchical_structure |-> counted.has_hierarchical_structure,
                       title_candidates |-> title_candidates,
                       potential_headers |-> found.headers]]
  IN  Filled(_find_title_candidates_multilingual(SelectSeq(elements, LAMBDA elem : elem.page = 1),
                                                 counted),
             _find_potential_headers_multilingual(elements, counted))

\* [raised, analysis]: the analysis of the document, unless scoring raised
_analyze_document_structure(doc) ==
  Analysed(all_text_elements(doc), Counted(doc, all_text_elements(doc)))

\* str.title(): a cased character is upper-cased unless it follows a cased character
TitleCased(s) ==
  [i \in DOMAIN s |-> IF i > 1 /\ s[i - 1] \in Letters THEN ToLower(s[i]) ELSE ToUpper(s[i])]

\* Path(pdf_path).stem
Stem(pdf_path) ==
  LET slashes == {i \in DOMAIN pdf_path : pdf_path[i] = "/"}
      from == IF slashes = {} THEN 1 ELSE 1 + CHOOSE i \in slashes : \A j \in slashes : j <= i
      name == SubSeq(pdf_path, from, Len(pdf_path))
      dots == {i \in DOMAIN name : name[i] = "." /\ 1 < i /\ i < Len(name)}
  IN  IF dots = {} THEN name
      ELSE SubSeq(name, 1, (CHOOSE i \in dots : \A j \in dots : j <= i) - 1)

\* re.sub(r'^(microsoft\s+word\s*-\s*)', '', filename, flags=re.IGNORECASE)
StripWordPrefix(filename) ==
  LET Lit(w) == [i \in DOMAIN w |-> Atom({w[i]}, "one")]
      prefix == MatchAtoms(Lit(<<"m", "i", "c", "r", "o", "s", "o", "f", "t">>)
                           \o <<Atom(Whitespace, "plus")>>
                           \o Lit(<<"w", "o", "r", "d">>)
                           \o <<Atom(Whitespace, "star"), Atom({"-"}, "one"),
                                Atom(Whitespace, "star")>>,
                           lower(filename), 1)
  IN  IF prefix > 0 THEN SubSeq(filename, prefix, Len(filename)) ELSE filename

\* filename.replace('_', ' ').replace('-', ' ')
ReplaceSeparators(filename) ==
  [i \in DOMAIN filename |-> IF filename[i] \in {"_", "-"} THEN " " ELSE filename[i]]

\* filename.title() if filename.islower() or filename.isupper()
TitleIfOneCase(filename) ==
  IF \/ /\ \E i \in DOMAIN filename : filename[i] \in Range(LowerChars)
        /\ \A i \in DOMAIN filename : filename[i] \notin Range(UpperChars)
     \/ /\ \E i \in DOMAIN filename : filename[i] \in Range(UpperChars)
        /\ \A i \in DOMAIN filename : filename[i] \notin Range(LowerChars)
  THEN TitleCased(filename)
  ELSE filename

\* the file name without its fallback: the slip that C5 must tell from the fallback
SameFilename(filename) == filename

\* filename if filename else "Document"
OrDocument(filename) ==
  IF filename = <<>> THEN <<"D", "o", "c", "u", "m", "e", "n", "t">> ELSE filename

_clean_filename(pdf_path) ==
  IF pdf_path = <<>> THEN <<"D", "o", "c", "u", "m", "e", "n", "t">>
  ELSE OrDocument(TitleIfOneCase(CollapseWhitespace(ReplaceSeparators(
         StripWordPrefix(Stem(pdf_path))))))

\* the range with its lower bound moved by one: the slip that C9 must tell from the range
TitleInRangeFrom5(stripped) == Len(stripped) > 4 /\ Len(stripped) < 300

\* len(title) > 3 and len(title) < 300
TitleInRange(stripped) == Len(stripped) > 3 /\ Len(stripped) < 300

\* the title with the candidates tried before the metadata: the slip that C8 must tell
\* from the order of _extract_title_from_structure
CandidatesFirst(doc_metadata, name, analysis) ==
  IF ~doc_metadata.present THEN _clean_filename(name)
  ELSE IF analysis.title_candidates # <<>> THEN analysis.title_candidates[1].text
  ELSE IF doc_metadata.title # <<>> /\ TitleInRange(strip(doc_metadata.title))
  THEN strip(doc_metadata.title)
  ELSE _clean_filename(name)

\* doc_metadata is doc.metadata, name is doc.name
_extract_title_from_structure(doc_metadata, name, analysis) ==
  IF ~doc_metadata.present
  THEN _clean_filename(name)    \* metadata.get raises, the handler cleans the file name
  ELSE IF doc_metadata.title # <<>> /\ TitleInRange(strip(doc_metadata.title))
  THEN strip(doc_metadata.title)
  ELSE IF analysis.title_candidates # <<>> THEN analysis.title_candidates[1].text
  ELSE _clean_filename(name)

\* the walk without the check of seen_texts: the slip that C2 must tell from the walk
KeepRepeated(sorted_headers, i, seen_texts) ==
  LET Entry(header) == [level |-> header.level,
                        text |-> header.text,
                        page |-> header.page,
                        language |-> header.element.language_info.script]
      kept == SelectSeq(sorted_headers, LAMBDA header : Len(processor[header.text].dedup_key) >= 2)
  IN  [k \in DOMAIN kept |-> Entry(kept[k])]

\* the walk that keeps the last header of each text instead of the first: the choice
\* that C24 must tell from the walk with the set of seen texts
KeepLast(sorted_headers, i, seen_texts) ==
  LET Entry(header) == [level |-> header.level,
                        text |-> header.text,
                        page |-> header.page,
                        language |-> header.element.language_info.script]
      last == {k \in DOMAIN sorted_headers :
                 /\ Len(processor[sorted_headers[k].text].dedup_key) >= 2
                 /\ \A m \in (k + 1)..Len(sorted_headers) :
                      processor[sorted_headers[m].text].dedup_key
                        # processor[sorted_headers[k].text].dedup_key}
      kept == SelectSeq([k \in DOMAIN sorted_headers |-> [at |-> k, header |-> sorted_headers[k]]],
                        LAMBDA h : h.at \in last)
  IN  [k \in DOMAIN kept |-> Entry(kept[k].header)]

\* the walk over the sorted headers that drops repeated and very short texts
RECURSIVE FilterHeaders(_, _, _)
FilterHeaders(sorted_headers, i, seen_texts) ==
  IF i > Len(sorted_headers) THEN <<>>
  ELSE LET header == sorted_headers[i]
           normalized_key == processor[header.text].dedup_key
       IN  IF normalized_key \in seen_texts \/ Len(normalized_key) < 2
           THEN FilterHeaders(sorted_headers, i + 1, seen_texts)
           ELSE <<[level |-> header.level,
                   text |-> header.text,
                   page |-> header.page,
                   language |-> header.element.language_info.script]>>
                \o FilterHeaders(sorted_headers, i + 1, seen_texts \cup {normalized_key})

\* the outline without the selection for simple documents: the slip that C4 must tell
\* from _extract_headers_from_structure
KeepLowScores(analysis) ==
  LET ByPageAndScore(potential_headers) ==
        Sorted(potential_headers,
               [i \in DOMAIN potential_headers |->
                  100 * potential_headers[i].page - potential_headers[i].score])
  IN  IF analysis.document_type = "form" THEN <<>>
      ELSE Take(FilterHeaders(ByPageAndScore(analysis.potential_headers), 1, {}), 40)

\* the most entries of an outline
MaxOutline == 40

\* the outline with the headers sorted by page alone: the order that C23 must tell from
\* the sort by page and score
SortedByPageOnly(analysis) ==
  LET ByPage(potential_headers) ==
        Sorted(potential_headers,
               [i \in DOMAIN potential_headers |-> potential_headers[i].page])
  IN  IF IsForm(analysis) THEN <<>>
      ELSE Take(FilterHeaders(
                  ByPage(IF analysis.document_type = "simple_document"
                         THEN SelectSeq(analysis.potential_headers,
                                        LAMBDA h : h.score >= 7)
                         ELSE analysis.potential_headers),
                  1, {}),
                MaxOutline)

_extract_headers_from_structure(analysis) ==
  LET ByPageAndScore(potential_headers) ==
        Sorted(potential_headers,
               [i \in DOMAIN potential_headers |->
                  100 * potential_headers[i].page - potential_headers[i].score])
  IN  IF IsForm(analysis) THEN <<>>
      ELSE Take(FilterHeaders(
                  ByPageAndScore(IF analysis.document_type = "simple_document"
                                 THEN SelectSeq(analysis.potential_headers,
                                                LAMBDA h : h.score >= 7)
                                 ELSE analysis.potential_headers),
                  1, {}),
                MaxOutline)

(* ------------------------- extract_structure ---------------------------- *)

VARIABLES
  pc,             \* where extract_structure stands
  pdf_path,       \* its argument
  path_exists,    \* os.path.exists(pdf_path)
  doc,            \* the pages of the opened document
  handle_open,    \* the document handle is open
  metadata,       \* doc.metadata as read by the title step
  doc_analysis,   \* the local doc_analysis: <<>> until it is assigned
  last_analysis,  \* self._last_analysis: <<>> while the attribute is not set
  title,          \* the local title
  outline,        \* the local outline
  e,              \* the exception the handler caught: <<>>, or <<str(e)>>
  result,         \* the value returned, once pc = "done"
  score_call,     \* the arguments of a call of calculate_multilingual_header_score
  score_result,   \* what that call did: [raised, score]
  header_call,    \* the element and the dominant size of one round of the header loop
  header_found,   \* what that round did: [raised, accepted, score, level]
  keyword_call,   \* the text of a call of is_multilingual_header_keyword
  keyword_found,  \* what the call returned, and the keyword bonus of the text: [matched, bonus]
  normalize_call, \* the text of a call of normalize_text
  normalize_found, \* what the call returned, and what a call on that result returns: [once, twice]
  callers,        \* the calls in flight of two callers: [pc, instance, input, doc_analysis, result]
  extractors,     \* self._last_analysis of each extractor instance: <<>> while it is not set
  reports,        \* what each finished call returned and what its caller then read
  profile,        \* _analyze_document_structure step by step: [step, doc, pages, elements,
                  \* fixed, analysis, scored]
  method_call,    \* the method and the arguments of a call of one method on its own
  method_result   \* what that call returned

score_vars == <<score_call, score_result>>

header_vars == <<header_call, header_found>>

keyword_vars == <<keyword_call, keyword_found>>

normalize_vars == <<normalize_call, normalize_found>>

session_vars == <<callers, extractors, reports>>

\* the variables of extract_structure
call_vars ==
  <<pc, pdf_path, path_exists, doc, handle_open, metadata, doc_analysis, last_analysis,
    title, outline, e, result>>

vars ==
  <<pc, pdf_path, path_exists, doc, handle_open, metadata, doc_analysis, last_analysis,
    title, outline, e, result, score_call, score_result, header_call, header_found,
    keyword_call, keyword_found, normalize_call, normalize_found,
    callers, extractors, reports, profile, method_call, method_result>>

FileNotFoundTitle == <<"F", "i", "l", "e", " ", "n", "o", "t", " ", "f", "o", "u", "n", "d">>

\* the handler with a generic title for an exception without a message: what C7 must
\* tell from the handler of extract_structure
GenericErrorTitle(message) ==
  IF message = <<>>
  THEN <<"E", "r", "r", "o", "r", " ", "p", "r", "o", "c", "e", "s", "s", "i", "n", "g", " ",
         "d", "o", "c", "u", "m", "e", "n", "t">>
  ELSE <<"E", "r", "r", "o", "r", ":", " ">> \o message

\* f"Error: {str(e)}"
ErrorTitle(message) == <<"E", "r", "r", "o", "r", ":", " ">> \o message

\* the titles doc.metadata may carry, by the size of the document
MetadatasOf(d) ==
  IF Len(Concat(d)) <= MaxTitleSpans THEN AllMetadatas ELSE BasicMetadatas

\* nothing was appended and nothing raised
NoHeader == [raised |-> FALSE, accepted |-> FALSE, score |-> 0, level |-> "none"]

\* the callers of extract_structure, and the extractor instances they use
Callers == {1, 2}

Instances == {1, 2}

\* the most calls of extract_structure of a session
MaxCalls == 3

\* a caller that has no call in flight
Idle ==
  [pc |-> "idle", instance |-> 1, input |-> <<>>, doc_analysis |-> <<>>,
   result |-> [title |-> <<>>, outline |-> <<>>]]

\* _analyze_document_structure has not been called
NoProfile ==
  [step |-> "idle", doc |-> <<>>, pages |-> 0, elements |-> <<>>, fixed |-> {},
   analysis |-> [dominant_font_size |-> 10, document_type |-> "unknown",
                 title_candidates |-> <<>>, potential_headers |-> <<>>],
   scored |-> <<>>]

Init ==
  /\ pc = "idle"
  /\ pdf_path = <<>>
  /\ path_exists = FALSE
  /\ doc = <<>>
  /\ handle_open = FALSE
  /\ metadata = NoMetadata
  /\ doc_analysis = <<>>
  /\ last_analysis = <<>>
  /\ title = <<>>
  /\ outline = <<>>
  /\ e = <<>>
  /\ result = [title |-> <<>>, outline |-> <<>>]
  /\ score_call = <<>>
  /\ score_result = [raised |-> FALSE, score |-> 0]
  /\ header_call = <<>>
  /\ header_found = NoHeader
  /\ keyword_call = <<>>
  /\ keyword_found = [matched |-> FALSE, bonus |-> 0]
  /\ normalize_call = <<>>
  /\ normalize_found = [once |-> <<>>, twice |-> <<>>]
  /\ callers = [t \in Callers |-> Idle]
  /\ extractors = [x \in Instances |-> <<>>]
  /\ reports = <<>>
  /\ profile = NoProfile
  /\ method_call = <<>>
  /\ method_result = <<>>

\* the caller passes a path, of a file that exists or not
Call ==
  /\ pc = "idle"
  /\ \E path \in PdfPaths : pdf_path' = path
  /\ \E exists \in BOOLEAN : path_exists' = exists
  /\ pc' = "exists"
  /\ UNCHANGED <<doc, handle_open, metadata, doc_analysis, last_analysis, title, outline, e,
                 result, score_vars, header_vars,
                 keyword_vars, normalize_vars, session_vars, profile,
                 method_call, method_result>>

\* os.path.exists(pdf_path) is false
FileNotFound ==
  /\ pc = "exists"
  /\ ~path_exists
  /\ result' = [title |-> FileNotFoundTitle, outline |-> <<>>]
  /\ pc' = "done"
  /\ UNCHANGED <<pdf_path, path_exists, doc, handle_open, metadata, doc_analysis,
                 last_analysis, title, outline, e, score_vars, header_vars,
                 keyword_vars, normalize_vars, session_vars, profile,
                 method_call, method_result>>

\* fitz.open(pdf_path) returns a document
Open ==
  /\ pc = "exists"
  /\ path_exists
  /\ \E d \in Documents : doc' = d
  /\ handle_open' = TRUE
  /\ pc' = "analyze"
  /\ UNCHANGED <<pdf_path, path_exists, metadata, doc_analysis, last_analysis, title, outline,
                 e, result, score_vars, header_vars,
                 keyword_vars, normalize_vars, session_vars, profile,
                 method_call, method_result>>

\* fitz.open(pdf_path) raises: the handler of extract_structure returns the error
OpenRaises ==
  /\ pc = "exists"
  /\ path_exists
  /\ \E message \in OpenErrors :
       /\ e' = <<message>>
       /\ result' = [title |-> ErrorTitle(message), outline |-> <<>>]
  /\ pc' = "done"
  /\ UNCHANGED <<pdf_path, path_exists, doc, handle_open, metadata, doc_analysis,
                 last_analysis, title, outline, score_vars, header_vars,
                 keyword_vars, normalize_vars, session_vars, profile,
                 method_call, method_result>>

\* doc_analysis = self._analyze_document_structure(doc); self._last_analysis = doc_analysis
Analyze ==
  /\ pc = "analyze"
  /\ \E analysed \in {_analyze_document_structure(doc)} :
       /\ ~analysed.raised
       /\ doc_analysis' = <<analysed.analysis>>
       /\ last_analysis' = <<analysed.analysis>>
  /\ pc' = "title"
  /\ UNCHANGED <<pdf_path, path_exists, doc, handle_open, metadata, title, outline, e, result,
                 score_vars, header_vars,
                 keyword_vars, normalize_vars, session_vars, profile,
                 method_call, method_result>>

\* the analysis raises: the handler of extract_structure returns the error
AnalyzeRaises ==
  /\ pc = "analyze"
  /\ _analyze_document_structure(doc).raised
  /\ e' = <<ZeroDivisionError>>
  /\ result' = [title |-> ErrorTitle(ZeroDivisionError), outline |-> <<>>]
  /\ pc' = "done"
  /\ UNCHANGED <<pdf_path, path_exists, doc, handle_open, metadata, doc_analysis,
                 last_analysis, title, outline, score_vars, header_vars,
                 keyword_vars, normalize_vars, session_vars, profile,
                 method_call, method_result>>

\* title = self._extract_title_from_structure(doc, doc_analysis)
ExtractTitle ==
  /\ pc = "title"
  /\ \E m \in MetadatasOf(doc) :
       /\ metadata' = m
       /\ title' = _extract_title_from_structure(m, pdf_path, doc_analysis[1])
  /\ pc' = "headers"
  /\ UNCHANGED <<pdf_path, path_exists, doc, handle_open, doc_analysis, last_analysis, outline,
                 e, result, score_vars, header_vars,
                 keyword_vars, normalize_vars, session_vars, profile,
                 method_call, method_result>>

\* outline = self._extract_headers_from_structure(doc, doc_analysis)
ExtractHeaders ==
  /\ pc = "headers"
  /\ outline' = _extract_headers_from_structure(doc_analysis[1])
  /\ pc' = "close"
  /\ UNCHANGED <<pdf_path, path_exists, doc, handle_open, metadata, doc_analysis,
                 last_analysis, title, e, result, score_vars, header_vars,
                 keyword_vars, normalize_vars, session_vars, profile,
                 method_call, method_result>>

\* doc.close(); return {"title": title, "outline": outline}
Return ==
  /\ pc = "close"
  /\ handle_open' = FALSE
  /\ result' = [title |-> title, outline |-> outline]
  /\ pc' = "done"
  /\ UNCHANGED <<pdf_path, path_exists, doc, metadata, doc_analysis, last_analysis, title,
                 outline, e, score_vars, header_vars,
                 keyword_vars, normalize_vars, session_vars, profile,
                 method_call, method_result>>

Next ==
  \/ Call
  \/ FileNotFound
  \/ Open
  \/ OpenRaises
  \/ Analyze
  \/ AnalyzeRaises
  \/ ExtractTitle
  \/ ExtractHeaders
  \/ Return

Spec == Init /\ [][Next]_vars

(* ---------------- calculate_multilingual_header_score alone -------------- *)

ScoreTexts ==
  { <<>>,
    <<"S", "U", "M", "M", "A", "R", "Y">>,
    <<"1", ".", " ", "S", "U", "M", "M", "A", "R", "Y", ":">>,
    <<"1", ".", "1", ".", "1", ".", " ", "S", "c", "o", "p", "e">>,
    <<"1", ".", "1", " ", "B", "a", "c", "k", "g", "r", "o", "u", "n", "d">>,
    <<"I", "n", "t", "r", "o", "d", "u", "c", "t", "i", "o", "n">>,
    <<"N", "a", "m", "e", ":">>,
    <<"P", "a", "g", "e", " ", "3">>,
    <<"s", "e", "e", " ", "n", "o", "t", "e", "s", " ", "b", "e", "l", "o", "w">>,
    <<"c", "o", "p", "y", "r", "i", "g", "h", "t", " ", "2", "0", "2", "4", ",", " ",
      "a", ",", " ", "b", ",", " ", "c">>,
    <<"U0412", "U0432", "U0435", "U0434", "U0435", "U043D", "U0438", "U0435">>,
    Filler(121) }

ScoreSizes == {0, 10, 12, 16}

\* a caller applies calculate_multilingual_header_score to a text and its fonts
ScoreCall ==
  /\ score_call = <<>>
  /\ \E text \in ScoreTexts, font_size \in ScoreSizes, is_bold \in BOOLEAN,
        dominant_font_size \in ScoreSizes :
       /\ score_call' = <<[text |-> text, font_size |-> font_size, is_bold |-> is_bold,
                           dominant_font_size |-> dominant_font_size]>>
       /\ score_result' = calculate_multilingual_header_score(text, font_size, is_bold,
                                                              dominant_font_size)
  /\ UNCHANGED <<call_vars, header_vars, keyword_vars, normalize_vars, session_vars, profile,
                 method_call, method_result>>

ScoreSpec == Init /\ [][ScoreCall]_vars

(* ------------- one round of the loop of the potential headers ---------- *)

\* what the round does with the score it computed: it raises with the score, passes
\* the element over, or appends it with its level
Appended(scored, level) ==
  IF scored.raised THEN [raised |-> TRUE, accepted |-> FALSE, score |-> 0, level |-> "none"]
  ELSE IF scored.score >= 5
  THEN [raised |-> FALSE, accepted |-> TRUE, score |-> scored.score, level |-> level]
  ELSE [raised |-> FALSE, accepted |-> FALSE, score |-> scored.score, level |-> "none"]

\* header_score = calculate_multilingual_header_score(...); if header_score >= 0.5:
\* level = self._determine_header_level_multilingual(elem, analysis)
HeaderOf(elem, analysis) ==
  Appended(calculate_multilingual_header_score(elem.text, elem.font_size, elem.is_bold,
                                               analysis.dominant_font_size),
           _determine_header_level_multilingual(elem, analysis))

\* the loop of _find_potential_headers_multilingual reaches the scoring of an element
HeaderCall ==
  /\ header_call = <<>>
  /\ \E text \in HeaderTexts, font_size \in HeaderSizes, is_bold \in BOOLEAN,
        dominant_font_size \in HeaderSizes :
       /\ header_call' = <<[text |-> text, font_size |-> font_size, is_bold |-> is_bold,
                             dominant_font_size |-> dominant_font_size]>>
       /\ header_found' = HeaderOf([text |-> text, font_size |-> font_size,
                                     is_bold |-> is_bold],
                                    [dominant_font_size |-> dominant_font_size])
  /\ UNCHANGED <<call_vars, score_vars, keyword_vars, normalize_vars, session_vars, profile,
                 method_call, method_result>>

HeaderSpec == Init /\ [][HeaderCall]_vars

(* ------------- calls of extract_structure, one after or among others ----- *)

\* the inputs of the calls: a report with a heading, a form, and a document whose
\* fragments all have font size 0; each with its metadata and its file name
SessionInputs ==
  { [doc |-> << <<[text |-> <<"S", "U", "M", "M", "A", "R", "Y">>, size |-> 16, bold |-> TRUE,
                   y |-> 100],
                  [text |-> <<"s", "e", "e", " ", "n", "o", "t", "e", "s", " ", "b", "e", "l",
                              "o", "w">>, size |-> 10, bold |-> FALSE, y |-> 600]>>,
                <<>> >>,
     metadata |-> Metadata(<<>>),
     pdf_path |-> <<"a", "n", "n", "u", "a", "l", "_", "r", "e", "p", "o", "r", "t", ".", "p",
                    "d", "f">>],
    [doc |-> << <<[text |-> <<"N", "a", "m", "e", ":">>, size |-> 10, bold |-> FALSE,
                   y |-> 100]>>,
                <<[text |-> <<"S", "U", "M", "M", "A", "R", "Y">>, size |-> 16, bold |-> TRUE,
                   y |-> 100]>> >>,
     metadata |-> NoMetadata,
     pdf_path |-> <<"_", ".", "p", "d", "f">>],
    [doc |-> << <<[text |-> <<"s", "e", "e", " ", "n", "o", "t", "e", "s", " ", "b", "e", "l",
                              "o", "w">>, size |-> 0, bold |-> FALSE, y |-> 100]>>,
                <<>> >>,
     metadata |-> Metadata(<<>>),
     pdf_path |-> <<"_", ".", "p", "d", "f">>] }

\* the calls begun so far
Begun == Len(reports) + Cardinality({t \in Callers : callers[t].pc # "idle"})

\* the analysis of the instance instead of the local one: the sharing that C16 must
\* tell from the local doc_analysis
StoredAnalysis(doc_analysis_, last_analysis_) == last_analysis_[1]

\* the doc_analysis that extract_structure passes to the title and header steps
GivenAnalysis(doc_analysis_, last_analysis_) == doc_analysis_[1]

\* a caller calls extract_structure of an instance on a file that exists and opens
SessionCall(t) ==
  /\ callers[t].pc = "idle"
  /\ Begun < MaxCalls
  /\ \E x \in Instances, input \in SessionInputs :
       callers' = [callers EXCEPT ![t] = [Idle EXCEPT !.pc = "analyze", !.instance = x,
                                                      !.input = input]]
  /\ UNCHANGED <<extractors, reports, call_vars, score_vars, header_vars, keyword_vars,
                 normalize_vars, profile,
                 method_call, method_result>>

\* doc_analysis = self._analyze_document_structure(doc); self._last_analysis = doc_analysis
SessionAnalyze(t) ==
  /\ callers[t].pc = "analyze"
  /\ \E analysed \in {_analyze_document_structure(callers[t].input.doc)} :
       /\ ~analysed.raised
       /\ callers' = [callers EXCEPT ![t].pc = "extract",
                                     ![t].doc_analysis = <<analysed.analysis>>]
       /\ extractors' = [extractors EXCEPT ![callers[t].instance] = <<analysed.analysis>>]
  /\ UNCHANGED <<reports, call_vars, score_vars, header_vars, keyword_vars, normalize_vars,
                 profile,
                 method_call, method_result>>

\* the analysis raises: the call returns the error, the attribute is not assigned
SessionAnalyzeRaises(t) ==
  /\ callers[t].pc = "analyze"
  /\ _analyze_document_structure(callers[t].input.doc).raised
  /\ callers' = [callers EXCEPT ![t].pc = "report",
                                ![t].result = [title |-> ErrorTitle(ZeroDivisionError),
                                               outline |-> <<>>]]
  /\ UNCHANGED <<extractors, reports, call_vars, score_vars, header_vars, keyword_vars,
                 normalize_vars, profile,
                 method_call, method_result>>

\* the title and the outline from doc_analysis; return {"title": title, "outline": outline}
SessionExtract(t) ==
  /\ callers[t].pc = "extract"
  /\ \E analysis \in {GivenAnalysis(callers[t].doc_analysis,
                                     extractors[callers[t].instance])} :
       callers' = [callers EXCEPT
                     ![t].pc = "report",
                     ![t].result =
                        [title |-> _extract_title_from_structure(callers[t].input.metadata,
                                                                 callers[t].input.pdf_path,
                                                                 analysis),
                         outline |-> _extract_headers_from_structure(analysis)]]
  /\ UNCHANGED <<extractors, reports, call_vars, score_vars, header_vars, keyword_vars,
                 normalize_vars, profile,
                 method_call, method_result>>

\* language_stats after the loop has handled the files of the reports: for each script,
\* the number of files it was detected for
language_stats(handled) ==
  [script \in UNION {handled[i].detected_scripts : i \in DOMAIN handled} |->
     Cardinality({i \in DOMAIN handled : script \in handled[i].detected_scripts})]

\* the caller has the result and reads extractor._last_analysis for its report on
\* the file (hasattr(extractor, '_last_analysis') and extractor._last_analysis):
\* the scripts of that analysis are the detected scripts of the file
SessionReport(t) ==
  /\ callers[t].pc = "report"
  /\ LET read == extractors[callers[t].instance]
         detected_scripts ==
           IF read = <<>> THEN {}
           ELSE {script \in DOMAIN read[1].scripts :
                   script # "unknown" /\ read[1].scripts[script] > 0}
     IN  reports' = Append(reports, [input |-> callers[t].input,
                                     instance |-> callers[t].instance,
                                     result |-> callers[t].result,
                                     analysis |-> read,
                                     detected_scripts |-> detected_scripts])
  /\ callers' = [callers EXCEPT ![t] = Idle]
  /\ UNCHANGED <<extractors, call_vars, score_vars, header_vars, keyword_vars,
                 normalize_vars, profile,
                 method_call, method_result>>

SessionNext ==
  \E t \in Callers :
    \/ SessionCall(t)
    \/ SessionAnalyze(t)
    \/ SessionAnalyzeRaises(t)
    \/ SessionExtract(t)
    \/ SessionReport(t)

SessionSpec == Init /\ [][SessionNext]_vars

(* ------------------ _analyze_document_structure step by step ------------ *)

\* the scoring of the title candidates placed before the dominant font size and the
\* document type are determined: the order that C18 must tell from the code's
TitlesFirst(step) ==
  CASE step = "collect" -> "title"
    [] step = "title" -> "dominant"
    [] step = "dominant" -> "type"
    [] step = "type" -> "headers"
    [] OTHER -> "done"

\* the order of the statements of _analyze_document_structure after the loop over the pages
StepAfter(step) ==
  CASE step = "collect" -> "dominant"
    [] step = "dominant" -> "type"
    [] step = "type" -> "title"
    [] step = "title" -> "headers"
    [] OTHER -> "done"

\* what a scoring step read of the analysis, and how many pages were collected
ScoringStep(kind) ==
  [kind |-> kind, pages |-> profile.pages, fixed |-> profile.fixed,
   dominant_font_size |-> profile.analysis.dominant_font_size,
   document_type |-> profile.analysis.document_type]

\* the elements of page p of the document
PageElements(d, p) ==
  SelectSeq([i \in DOMAIN d[p] |->
               Element(d[p][i], strip(d[p][i].text), p, processor[strip(d[p][i].text)])],
            LAMBDA elem : Len(elem.text) > 1)

\* the analysis dictionary is created with its defaults
ProfileStart ==
  /\ profile.step = "idle"
  /\ \E d \in Documents : profile' = [NoProfile EXCEPT !.step = "collect", !.doc = d]
  /\ UNCHANGED <<call_vars, score_vars, header_vars, keyword_vars, normalize_vars,
                 session_vars,
                 method_call, method_result>>

\* one round of the loop over the pages: the elements of the page are appended
CollectPage ==
  /\ profile.step = "collect"
  /\ profile.pages < Len(profile.doc)
  /\ profile' = [profile EXCEPT
                   !.pages = @ + 1,
                   !.elements = @ \o PageElements(profile.doc, profile.pages + 1),
                   !.step = IF profile.pages + 1 = Len(profile.doc)
                            THEN StepAfter("collect") ELSE "collect"]
  /\ UNCHANGED <<call_vars, score_vars, header_vars, keyword_vars, normalize_vars,
                 session_vars,
                 method_call, method_result>>

\* if analysis['font_sizes']: analysis['dominant_font_size'] = max(...)
FixDominant ==
  /\ profile.step = "dominant"
  /\ profile' = [profile EXCEPT
                   !.analysis.dominant_font_size =
                      IF profile.elements = <<>> THEN @
                      ELSE FirstMostCommon([i \in DOMAIN profile.elements |->
                                              profile.elements[i].font_size]),
                   !.fixed = @ \cup {"dominant"},
                   !.step = StepAfter("dominant")]
  /\ UNCHANGED <<call_vars, score_vars, header_vars, keyword_vars, normalize_vars,
                 session_vars,
                 method_call, method_result>>

\* analysis['document_type'] = self._determine_document_type_multilingual(...)
FixType ==
  /\ profile.step = "type"
  /\ profile' = [profile EXCEPT
                   !.analysis.document_type =
                      _determine_document_type_multilingual(profile.elements),
                   !.fixed = @ \cup {"type"},
                   !.step = StepAfter("type")]
  /\ UNCHANGED <<call_vars, score_vars, header_vars, keyword_vars, normalize_vars,
                 session_vars,
                 method_call, method_result>>

\* if all_text_elements: analysis['title_candidates'] = ...
ScoreTitles ==
  /\ profile.step = "title"
  /\ profile' = IF profile.elements = <<>>
                THEN [profile EXCEPT !.step = StepAfter("title")]
                ELSE [profile EXCEPT
                        !.analysis.title_candidates =
                           _find_title_candidates_multilingual(
                             SelectSeq(profile.elements, LAMBDA elem : elem.page = 1),
                             profile.analysis),
                        !.scored = Append(@, ScoringStep("title")),
                        !.step = StepAfter("title")]
  /\ UNCHANGED <<call_vars, score_vars, header_vars, keyword_vars, normalize_vars,
                 session_vars,
                 method_call, method_result>>

\* analysis['potential_headers'] = self._find_potential_headers_multilingual(...)
ScoreHeaders ==
  /\ profile.step = "headers"
  /\ \E found \in {_find_potential_headers_multilingual(profile.elements, profile.analysis)} :
       profile' = [profile EXCEPT
                     !.analysis.potential_headers = found.headers,
                     !.scored = Append(@, ScoringStep("headers")),
                     !.step = IF found.raised THEN "raised" ELSE StepAfter("headers")]
  /\ UNCHANGED <<call_vars, score_vars, header_vars, keyword_vars, normalize_vars,
                 session_vars,
                 method_call, method_result>>

ProfileNext ==
  \/ ProfileStart
  \/ CollectPage
  \/ FixDominant
  \/ FixType
  \/ ScoreTitles
  \/ ScoreHeaders

ProfileSpec == Init /\ [][ProfileNext]_vars

(* ------------------------ single methods on their own -------------------- *)

\* the longest text given to detect_text_language
MaxLanguageLen == 3

\* a caller applies detect_text_language to a text of Latin, Cyrillic, Chinese and
\* hiragana characters, digits and spaces
LanguageCall ==
  /\ method_call = <<>>
  /\ \E text \in UNION {[1..n -> {"a", "U0432", "U4E00", "U306F", "1", " "}] :
                          n \in 0..MaxLanguageLen} :
       /\ method_call' = <<[method |-> "detect_text_language", text |-> text]>>
       /\ method_result' = detect_text_language(text)
  /\ UNCHANGED <<call_vars, score_vars, header_vars, keyword_vars, normalize_vars,
                 session_vars, profile>>

\* the list of elements given to _determine_document_type_multilingual, with counts[k]
\* elements of the k-th text: a label, a numbered heading of two words and one of
\* four, a sentence, a single word
TypeElements(counts) ==
  LET texts ==
        << <<"N", "a", "m", "e", ":">>,
           <<"1", ".", " ", "I", "n", "t", "r", "o", "d", "u", "c", "t", "i", "o", "n">>,
           <<"1", "2", ".", " ", "S", "c", "o", "p", "e", " ", "o", "f", " ", "w", "o", "r", "k">>,
           <<"s", "e", "e", " ", "n", "o", "t", "e", "s", " ", "b", "e", "l", "o", "w">>,
           <<"I", "n", "t", "r", "o", "d", "u", "c", "t", "i", "o", "n">> >>
  IN  Concat([k \in 1..5 |->
                [i \in 1..counts[k] |->
                   Element([text |-> texts[k], size |-> 10, bold |-> FALSE, y |-> 100],
                           texts[k], 1, processor[texts[k]])]])

\* the analysis applies _determine_document_type_multilingual to its elements
TypeCall ==
  /\ method_call = <<>>
  /\ \E counts \in [1..5 -> {0, 1, 9, 120}] :
       /\ method_call' = <<[method |-> "_determine_document_type_multilingual",
                            counts |-> counts]>>
       /\ method_result' = _determine_document_type_multilingual(TypeElements(counts))
  /\ UNCHANGED <<call_vars, score_vars, header_vars, keyword_vars, normalize_vars,
                 session_vars, profile>>

\* a caller applies extract_multilingual_numbering to the text of a fragment
NumberingCall ==
  /\ method_call = <<>>
  /\ \E text \in HeaderTexts :
       /\ method_call' = <<[method |-> "extract_multilingual_numbering", text |-> text]>>
       /\ method_result' = extract_multilingual_numbering(text)
  /\ UNCHANGED <<call_vars, score_vars, header_vars, keyword_vars, normalize_vars,
                 session_vars, profile>>

(* ------------------ the layout-box pipeline ------------------------------ *)

\* the texts of the boxes
BoxTexts ==
  {<<"1", ".", " ", "I", "n", "t", "r", "o", "d", "u", "c", "t", "i", "o", "n">>,
   <<"1", ".", "1", " ", "B", "a", "c", "k", "g", "r", "o", "u", "n", "d">>,
   <<"I", "n", "t", "r", "o", "d", "u", "c", "t", "i", "o", "n">>,
   <<"S", "U", "M", "M", "A", "R", "Y">>,
   <<"s", "e", "e", " ", "n", "o", "t", "e", "s", " ", "b", "e", "l", "o", "w", ".">>,
   <<"P", "a", "g", "e", " ", "3">>}

\* the lists of boxes the parser returns for a file: four lines of body text or none,
\* then up to two boxes; a box is [text, page_number, top, layout_type]
BoxLists ==
  LET free == {[text |-> text, page_number |-> place[1], top |-> place[2],
                layout_type |-> layout_type] :
                 text \in BoxTexts, place \in {<<1, 100>>, <<1, 200>>, <<2, 100>>},
                 layout_type \in {"", "title"}}
      body == [i \in 1..4 |-> [text |-> <<"s", "e", "e", " ", "n", "o", "t", "e", "s", " ", "b", "e", "l", "o", "w", ".">>,
                               page_number |-> 1, top |-> 10 * i, layout_type |-> "text"]]
  IN  {lead \o rest : lead \in {<<>>, body},
                      rest \in UNION {[1..n -> free] : n \in 0..2}}

\* the text matches one of noise_patterns
_is_noise_text(text) ==
  LET digits == Atom(DecimalDigits, "plus")
      spaces == Atom(Whitespace, "star")
      Whole(atoms) == MatchAtoms(atoms, lower(text), 1) = Len(text) + 1
  IN  \/ Whole(<<digits>>)
      \/ PageNumber(lower(text))
      \/ Whole(<<digits, spaces, Atom({"/"}, "one"), spaces, digits>>)
      \/ \A i \in DOMAIN text : text[i] \notin WordChars \cup Whitespace
      \/ \A i \in DOMAIN text : text[i] \in Whitespace

\* one of header_indicators holds for a text of 3 to 150 characters
_is_likely_header(given) ==
  LET text == strip(given)
      numbered == MatchAtoms(<<Atom(DecimalDigits, "plus"), Atom({".", ")"}, "one"),
                               Atom(Whitespace, "plus"), Atom(WordChars, "plus")>>, text, 1) > 0
      keywords == {<<"c", "h", "a", "p", "t", "e", "r">>,
                   <<"s", "e", "c", "t", "i", "o", "n">>,
                   <<"p", "a", "r", "t">>,
                   <<"i", "n", "t", "r", "o", "d", "u", "c", "t", "i", "o", "n">>,
                   <<"c", "o", "n", "c", "l", "u", "s", "i", "o", "n">>,
                   <<"b", "a", "c", "k", "g", "r", "o", "u", "n", "d">>,
                   <<"m", "e", "t", "h", "o", "d", "o", "l", "o", "g", "y">>,
                   <<"r", "e", "s", "u", "l", "t", "s">>,
                   <<"d", "i", "s", "c", "u", "s", "s", "i", "o", "n">>}
  IN  /\ Len(text) >= 3
      /\ Len(text) <= 150
      /\ \/ /\ \E i \in DOMAIN text : text[i] \in Range(UpperChars)
            /\ \A i \in DOMAIN text : text[i] \notin Range(LowerChars)
            /\ Len(text) > 5
         \/ numbered
         \/ /\ text[1] \in Range(LatinUpper)
            /\ text[2] \in Range(LatinLower)
            /\ text[Len(text)] \notin {".", "!", "?"}
         \/ \E k \in keywords : Contains(lower(text), k)

\* header_patterns, matched with re.IGNORECASE: the atoms before the group (.+) of a
\* numbered pattern, or the names of a pattern of section names, and the level
header_patterns ==
  LET digits == Atom(DecimalDigits, "plus")
      dot == Atom({"."}, "one")
      spaces == Atom(Whitespace, "plus")
      letter == Atom(Range(LatinUpper) \cup Range(LatinLower), "one")
      roman == Atom({"I", "V", "X", "i", "v", "x"}, "plus")
      Numbered(atoms, level) == [prefix |-> atoms, names |-> {}, level |-> level]
      Named(names, level) == [prefix |-> <<>>, names |-> names, level |-> level]
  IN  << Numbered(<<digits, dot, spaces>>, "H1"),
         Numbered(<<digits, dot, digits, spaces>>, "H2"),
         Numbered(<<digits, dot, digits, dot, digits, spaces>>, "H3"),
         Numbered(<<letter, dot, spaces>>, "H1"),
         Numbered(<<letter, dot, digits, spaces>>, "H2"),
         Numbered(<<roman, dot, spaces>>, "H1"),
         Named({<<"i", "n", "t", "r", "o", "d", "u", "c", "t", "i", "o", "n">>,
               <<"b", "a", "c", "k", "g", "r", "o", "u", "n", "d">>,
               <<"m", "e", "t", "h", "o", "d", "o", "l", "o", "g", "y">>,
               <<"m", "e", "t", "h", "o", "d", "s">>,
               <<"r", "e", "s", "u", "l", "t", "s">>,
               <<"d", "i", "s", "c", "u", "s", "s", "i", "o", "n">>,
               <<"c", "o", "n", "c", "l", "u", "s", "i", "o", "n">>,
               <<"r", "e", "f", "e", "r", "e", "n", "c", "e", "s">>,
               <<"a", "p", "p", "e", "n", "d", "i", "x">>}, "H1"),
         Named({<<"a", "b", "s", "t", "r", "a", "c", "t">>, <<"s", "u", "m", "m", "a", "r", "y">>, <<"o", "v", "e", "r", "v", "i", "e", "w">>}, "H1") >>

\* the text is of 3 to 200 characters, not made of digits, spaces and - / . only,
\* matches none of skip_patterns, and is of 10 to 100 or of more than 5 characters
_is_likely_title(given) ==
  LET text == strip(given)
      low == lower(text)
      Lit(w) == [i \in DOMAIN w |-> Atom({w[i]}, "one")]
      digits == Atom(DecimalDigits, "plus")
      spaces == Atom(Whitespace, "star")
      Starts(atoms) == MatchAtoms(atoms, low, 1) > 0
      Whole(atoms) == MatchAtoms(atoms, low, 1) = Len(low) + 1
  IN  /\ Len(text) >= 3
      /\ Len(text) <= 200
      /\ \E i \in DOMAIN text : text[i] \notin DecimalDigits \cup Whitespace \cup {"-", "/", "."}
      /\ ~Whole(<<digits>>)
      /\ ~PageNumber(low)
      /\ ~Whole(<<digits, spaces, Atom({"/"}, "one"), spaces, digits>>)
      /\ ~Starts(Lit(<<"t", "a", "b", "l", "e">>) \o <<Atom(Whitespace, "plus")>> \o Lit(<<"o", "f">>)
                 \o <<Atom(Whitespace, "plus")>> \o Lit(<<"c", "o", "n", "t", "e", "n", "t", "s">>))
      /\ low \notin {<<"r", "e", "f", "e", "r", "e", "n", "c", "e">>, <<"r", "e", "f", "e", "r", "e", "n", "c", "e", "s">>, <<"b", "i", "b", "l", "i", "o", "g", "r", "a", "p", "h", "y">>, <<"a", "b", "s", "t", "r", "a", "c", "t">>, <<"i", "n", "t", "r", "o", "d", "u", "c", "t", "i", "o", "n">>}
      /\ ~Starts(Lit(<<"a", "p", "p", "e", "n", "d", "i", "x">>))
      /\ Len(text) > 5

\* the level of a header of the layout strategy, from the numbering of its text
_determine_header_level(text) ==
  LET digits == Atom(DecimalDigits, "plus")
      dot == Atom({"."}, "one")
      spaces == Atom(Whitespace, "plus")
  IN  IF MatchAtoms(<<digits, dot, spaces>>, text, 1) > 0 THEN "H1"
      ELSE IF MatchAtoms(<<digits, dot, digits, spaces>>, text, 1) > 0 THEN "H2"
      ELSE IF MatchAtoms(<<digits, dot, digits, dot, digits, spaces>>, text, 1) > 0 THEN "H3"
      ELSE "H2"

\* the loop over header_patterns for the stripped text of a box: the level and the text
\* of the first pattern that matches, the text being the group (.+) of a numbered
\* pattern; <<>> when no pattern matches
PatternHeader(text) ==
  LET Matches(p) ==
        IF header_patterns[p].names # {} THEN lower(text) \in header_patterns[p].names
        ELSE MatchAtoms(header_patterns[p].prefix, text, 1) \in 1..Len(text)
      Group(p) ==
        IF header_patterns[p].names # {} THEN text
        ELSE SubSeq(text, MatchAtoms(header_patterns[p].prefix, text, 1), Len(text))
      matching == {p \in DOMAIN header_patterns : Matches(p)}
      first == CHOOSE p \in matching : \A q \in matching : p <= q
  IN  IF matching = {} THEN <<>>
      ELSE <<[level |-> header_patterns[first].level, text |-> strip(Group(first))]>>

\* the checks of the text of a box, each evaluated once on the stripped text
box_text ==
  [text \in BoxTexts |->
     [_is_noise_text |-> _is_noise_text(strip(text)),
      _is_likely_header |-> _is_likely_header(strip(text)),
      _is_likely_title |-> _is_likely_title(strip(text)),
      _determine_header_level |-> _determine_header_level(strip(text)),
      pattern |-> PatternHeader(strip(text))]]

\* unique_headers.sort(key=lambda x: (x["page"], boxes[next(i for i, box in
\* enumerate(boxes) if box["text"].strip() == x["text"])].get("top", 0))): next raises
\* StopIteration when no box has the text of a header
SortedByFirstBox(unique_headers, boxes) ==
  LET Places(header) == {i \in DOMAIN boxes : strip(boxes[i].text) = header.text}
      Top(header) == boxes[CHOOSE i \in Places(header) : \A j \in Places(header) : i <= j].top
  IN  IF \E k \in DOMAIN unique_headers : Places(unique_headers[k]) = {}
      THEN [raised |-> TRUE, headers |-> <<>>]
      ELSE [raised |-> FALSE,
            headers |-> Sorted(unique_headers,
                               [k \in DOMAIN unique_headers |->
                                  1000 * unique_headers[k].page + Top(unique_headers[k])])]

\* the box is one of the first four of its page, by top, and its text is a likely header
_is_header_by_position_and_format(box, checks, all_boxes) ==
  LET same_page_boxes == SelectSeq(all_boxes, LAMBDA b : b.page_number = box.page_number)
      Position(sorted_boxes) ==
        (CHOOSE k \in DOMAIN sorted_boxes :
           /\ sorted_boxes[k] = box
           /\ \A j \in 1..(k - 1) : sorted_boxes[j] # box) - 1
  IN  /\ Position(Sorted(same_page_boxes,
                         [i \in DOMAIN same_page_boxes |-> same_page_boxes[i].top])) <= 3
      /\ checks._is_likely_header

\* one round of the loop of the layout strategy: the header appended for the box, if
\* any; checks are the checks of the text of the box
LayoutHeader(box, checks, boxes) ==
  IF Len(strip(box.text)) < 3 \/ checks._is_noise_text THEN <<>>
  ELSE IF box.layout_type = "title"
  THEN <<[level |-> "H1", text |-> strip(box.text), page |-> box.page_number]>>
  ELSE IF _is_header_by_position_and_format(box, checks, boxes)
  THEN <<[level |-> checks._determine_header_level, text |-> strip(box.text),
          page |-> box.page_number]>>
  ELSE <<>>

\* the headers of the layout strategy, sorted; the text of each is the text of a box
_extract_headers_from_layout(boxes) ==
  SortedByFirstBox(Concat([i \in DOMAIN boxes |->
                             LayoutHeader(boxes[i], box_text[boxes[i].text], boxes)]),
                   boxes).headers

\* one round of the loop of the pattern strategy: the header appended for the box, if any
PatternBoxHeader(box, checks) ==
  IF Len(strip(box.text)) < 3 \/ checks._is_noise_text THEN <<>>
  ELSE IF checks.pattern # <<>>
  THEN <<[level |-> checks.pattern[1].level, text |-> checks.pattern[1].text,
          page |-> box.page_number]>>
  ELSE IF checks._is_likely_header
  THEN <<[level |-> "H2", text |-> strip(box.text), page |-> box.page_number]>>
  ELSE <<>>

\* the headers whose lower-cased text was not seen before, in their order
UniqueHeaders(headers) ==
  LET unique[i \in 0..Len(headers)] ==
        IF i = 0 THEN <<>>
        ELSE IF \E j \in 1..(i - 1) : lower(headers[j].text) = lower(headers[i].text)
        THEN unique[i - 1]
        ELSE Append(unique[i - 1], headers[i])
  IN  unique[Len(headers)]

\* [raised, headers]: the headers of the pattern strategy, unless the sort raised
_extract_headers_from_patterns(boxes) ==
  SortedByFirstBox(UniqueHeaders(Concat([i \in DOMAIN boxes |->
                                           PatternBoxHeader(boxes[i], box_text[boxes[i].text])])),
                   boxes)

\* the outline of the first strategy that gives one: bookmarks, layout, patterns
FirstOutline(bookmarks, by_layout, boxes) ==
  IF bookmarks # <<>> THEN [raised |-> FALSE, headers |-> bookmarks]
  ELSE IF by_layout # <<>> THEN [raised |-> FALSE, headers |-> by_layout]
  ELSE _extract_headers_from_patterns(boxes)

\* [raised, headers]: the outline from the bookmarks of the parser (title and depth),
\* else from the layout, else from the patterns
_extract_outline(boxes, outlines) ==
  LET Level(depth) == <<"H1", "H2", "H3", "H4", "H5", "H6">>[IF depth + 1 < 6 THEN depth + 1 ELSE 6]
  IN  FirstOutline([i \in DOMAIN outlines |-> [level |-> Level(outlines[i].depth),
                                               text |-> strip(outlines[i].title),
                                               page |-> 1]],
                   _extract_headers_from_layout(boxes), boxes)

\* the candidates of the boxes of the pages 1 and 2: those of layout type title with
\* confidence 90 (in hundredths), else the likely titles among the first 10 boxes by page
\* and top with confidence 70, 65, ...
BoxCandidates(early) ==
  LET Candidate(box, confidence) == [text |-> strip(box.text), page |-> box.page_number,
                                     confidence |-> confidence, y_pos |-> box.top]
      Marked(boxes) == [i \in DOMAIN boxes |-> Candidate(boxes[i], 90)]
      Likely(boxes) == Concat([i \in DOMAIN boxes |->
                                 IF box_text[boxes[i].text]._is_likely_title
                                 THEN <<Candidate(boxes[i], 70 - 5 * (i - 1))>>
                                 ELSE <<>>])
  IN  IF \E i \in DOMAIN early : early[i].layout_type = "title"
      THEN Marked(SelectSeq(early, LAMBDA box : box.layout_type = "title"))
      ELSE Likely(Take(Sorted(early, [i \in DOMAIN early |->
                                       1000 * early[i].page_number + early[i].top]), 10))

\* the text of the candidate of the highest confidence, then of the lowest page and
\* y_pos, else the file name in title case
BestTitle(title_candidates, path) ==
  IF title_candidates = <<>> THEN TitleCased(ReplaceSeparators(Stem(path)))
  ELSE Sorted(title_candidates,
              [i \in DOMAIN title_candidates |->
                 1000000 * (100 - title_candidates[i].confidence)
                 + 1000 * title_candidates[i].page + title_candidates[i].y_pos])[1].text

\* the title of the pipeline: the best of the candidates of the boxes and of the first
\* bookmark (confidence 80)
_extract_title(boxes, outlines, path) ==
  BestTitle(BoxCandidates(SelectSeq(boxes, LAMBDA box : box.page_number <= 2))
              \o (IF outlines = <<>> THEN <<>>
                  ELSE <<[text |-> strip(outlines[1].title), page |-> 1, confidence |-> 80,
                          y_pos |-> 0]>>),
            path)

\* "Unknown Document"
UnknownDocument == <<"U", "n", "k", "n", "o", "w", "n", " ", "D", "o", "c", "u", "m", "e", "n", "t">>

\* the result of extract_document_structure: the title and the outline, or the
\* "Unknown Document" result of the handler when the parser or the outline raised
StructureResult(parsed, title_, found) ==
  IF ~parsed \/ found.raised THEN [title |-> UnknownDocument, outline |-> <<>>]
  ELSE [title |-> title_, outline |-> found.headers]

\* a caller applies _extract_headers_from_patterns to a list of boxes
PatternsCall ==
  /\ method_call = <<>>
  /\ \E boxes \in BoxLists :
       /\ method_call' = <<[method |-> "_extract_headers_from_patterns", boxes |-> boxes]>>
       /\ method_result' = _extract_headers_from_patterns(boxes)
  /\ UNCHANGED <<call_vars, score_vars, header_vars, keyword_vars, normalize_vars,
                 session_vars, profile>>

\* extract_document_structure: the parser returns the boxes of the file or raises, the
\* title and the outline are extracted; any exception gives the "Unknown Document" result
PipelineCall ==
  /\ method_call = <<>>
  /\ \E parsed \in BOOLEAN :
     \E boxes \in (IF parsed THEN BoxLists ELSE {<<>>}),
        outlines \in (IF parsed
                      THEN {<<>>, <<[title |-> <<" ", "O", "v", "e", "r", "v", "i", "e", "w", " ">>,
                                     depth |-> 0],
                                    [title |-> <<"S", "c", "o", "p", "e">>, depth |-> 6]>>}
                      ELSE {<<>>}) :
       /\ method_call' = <<[method |-> "extract_document_structure", boxes |-> boxes,
                            parsed |-> parsed, outlines |-> outlines]>>
       /\ method_result' =
            StructureResult(parsed,
                            _extract_title(boxes, outlines,
                                           <<"a", "n", "n", "u", "a", "l", "_", "r", "e", "p", "o", "r", "t", ".", "p", "d", "f">>),
                            _extract_outline(boxes, outlines))
  /\ UNCHANGED <<call_vars, score_vars, header_vars, keyword_vars, normalize_vars,
                 session_vars, profile>>

PipelineNext ==
  \/ PatternsCall
  \/ PipelineCall

PipelineSpec == Init /\ [][PipelineNext]_vars

(* ------------------ the evaluator of header_evaluation.py ---------------- *)

\* the number of characters in the matching blocks of SequenceMatcher(None, a, b): the
\* longest common block, the earliest in a and then in b among the longest, and the
\* blocks to its left and to its right
RECURSIVE MatchedLength(_, _)
MatchedLength(a, b) ==
  LET blocks == {blk \in (DOMAIN a) \X (DOMAIN b) \X (1..Len(a)) :
                   /\ blk[1] + blk[3] - 1 <= Len(a)
                   /\ blk[2] + blk[3] - 1 <= Len(b)
                   /\ SubSeq(a, blk[1], blk[1] + blk[3] - 1) = SubSeq(b, blk[2], blk[2] + blk[3] - 1)}
      Before(x, y) == \/ x[3] > y[3]
                      \/ x[3] = y[3] /\ x[1] < y[1]
                      \/ x[3] = y[3] /\ x[1] = y[1] /\ x[2] <= y[2]
      Rest(blk) == blk[3]
                   + MatchedLength(SubSeq(a, 1, blk[1] - 1), SubSeq(b, 1, blk[2] - 1))
                   + MatchedLength(SubSeq(a, blk[1] + blk[3], Len(a)),
                                   SubSeq(b, blk[2] + blk[3], Len(b)))
  IN  IF blocks = {} THEN 0
      ELSE Rest(CHOOSE x \in blocks : \A y \in blocks : Before(x, y))

\* [matches, total]: SequenceMatcher(None, norm_text1, norm_text2).ratio() is
\* 2 * matches / total, and 1.0 (2 * 1 / 2) when both texts are empty
calculate_text_similarity(text1, text2) ==
  LET Norm(text) == LET stripped == strip(lower(text))
                    IN  [i \in DOMAIN stripped |-> IF stripped[i] = "\t" THEN " " ELSE stripped[i]]
      Ratio(a, b) == IF Len(a) + Len(b) = 0 THEN [matches |-> 1, total |-> 2]
                     ELSE [matches |-> MatchedLength(a, b), total |-> Len(a) + Len(b)]
  IN  Ratio(Norm(text1), Norm(text2))

\* the texts of the headers of the ground truth and of the predictions
EvaluatedTexts ==
  {<<"I", "n", "t", "r", "o", "d", "u", "c", "t", "i", "o", "n">>,
   <<"I", "n", "t", "r", "o", "d", "u", "c", "t", "i", "o", "n", "s">>,
   <<"S", "c", "o", "p", "e">>}

\* calculate_text_similarity of each pair of texts, evaluated once
text_similarity ==
  [pair \in EvaluatedTexts \X EvaluatedTexts |-> calculate_text_similarity(pair[1], pair[2])]

\* total_score = text_similarity + level_bonus + page_bonus as the fraction num / den:
\* the bonuses 0.1 and 0.05 are 2 and 1 twentieths
TotalScore(similarity, target_header, candidate) ==
  [num |-> 40 * similarity.matches
           + (IF target_header.level = candidate.level THEN 2 ELSE 0) * similarity.total
           + (IF target_header.page = candidate.page THEN 1 ELSE 0) * similarity.total,
   den |-> 20 * similarity.total]

\* one round of the loop of find_best_match: the candidate replaces the best so far
\* when its total score is greater
BetterMatch(best, candidate, total_score) ==
  IF total_score.num * best.den > best.num * total_score.den
  THEN [best_match |-> <<candidate>>, num |-> total_score.num, den |-> total_score.den]
  ELSE best

\* [best_match, num, den]: the first candidate of the highest total score above 0, as
\* <<candidate>>, and the score; <<>> for None and 0 when there is none
find_best_match(target_header, candidate_headers) ==
  LET best[i \in 0..Len(candidate_headers)] ==
        IF i = 0 THEN [best_match |-> <<>>, num |-> 0, den |-> 1]
        ELSE BetterMatch(best[i - 1], candidate_headers[i],
                         TotalScore(text_similarity[<<target_header.text,
                                                      candidate_headers[i].text>>],
                                    target_header, candidate_headers[i]))
  IN  best[Len(candidate_headers)]

\* a fraction <<num, den>>, or 0 as <<0, 1>> when the denominator is not positive
Quotient(num, den) == IF den > 0 THEN <<num, den>> ELSE <<0, 1>>

\* the counts and the metrics from the best matches of the ground-truth headers:
\* matched[k] is <<the index of the first prediction equal to the best match>> when the
\* score reaches the similarity threshold of 0.8, else <<>>
Metrics(matched, predictions) ==
  LET true_positives == Cardinality({k \in DOMAIN matched : matched[k] # <<>>})
      false_negatives == Cardinality({k \in DOMAIN matched : matched[k] = <<>>})
      matched_predictions == {matched[k][1] : k \in {j \in DOMAIN matched : matched[j] # <<>>}}
      false_positives == Len(predictions) - Cardinality(matched_predictions)
      Reported(tp, fp, fn) ==
        [precision |-> Quotient(tp, tp + fp),
         recall |-> Quotient(tp, tp + fn),
         f1_score |-> IF tp > 0 THEN <<2 * tp * tp, tp * (tp + fn) + tp * (tp + fp)>> ELSE <<0, 1>>,
         accuracy |-> Quotient(tp, tp + fp + fn),
         true_positives |-> tp,
         false_positives |-> fp,
         false_negatives |-> fn]
  IN  Reported(true_positives, false_positives, false_negatives)

\* calculate_metrics: each ground-truth header is matched against all the predictions
calculate_metrics(ground_truth, predictions) ==
  LET Index(found) ==
        IF found.best_match # <<>> /\ 10 * found.num >= 8 * found.den
        THEN <<CHOOSE i \in DOMAIN predictions :
                 /\ predictions[i] = found.best_match[1]
                 /\ \A j \in 1..(i - 1) : predictions[j] # found.best_match[1]>>
        ELSE <<>>
  IN  Metrics([k \in DOMAIN ground_truth |-> Index(find_best_match(ground_truth[k], predictions))],
              predictions)

\* the most headers of a list given to calculate_metrics
MaxHeaders == 2

\* a caller applies calculate_metrics to a ground truth and to predictions
MetricsCall ==
  /\ method_call = <<>>
  /\ \E ground_truth, predictions \in
          UNION {[1..n -> {[level |-> place[1], text |-> text, page |-> place[2]] :
                             text \in EvaluatedTexts,
                             place \in {<<"H1", 1>>, <<"H2", 1>>, <<"H1", 2>>}}] :
                   n \in 0..MaxHeaders} :
       /\ method_call' = <<[method |-> "calculate_metrics", ground_truth |-> ground_truth,
                            predictions |-> predictions]>>
       /\ method_result' = calculate_metrics(ground_truth, predictions)
  /\ UNCHANGED <<call_vars, score_vars, header_vars, keyword_vars, normalize_vars,
                 session_vars, profile>>

MethodNext ==
  \/ LanguageCall
  \/ TypeCall
  \/ NumberingCall
  \/ MetricsCall

MethodSpec == Init /\ [][MethodNext]_vars

(* ------------------- is_multilingual_header_keyword alone ---------------- *)

\* the keywords of every table, and the two headings "Vvedenie" and "Introduction"
\* as a document writes them
KeywordTexts ==
  all_header_keywords
  \cup { <<"U0412", "U0432", "U0435", "U0434", "U0435", "U043D", "U0438", "U0435">>,
         <<"I", "n", "t", "r", "o", "d", "u", "c", "t", "i", "o", "n">> }

\* a caller applies is_multilingual_header_keyword to a text; the score adds the
\* keyword bonus of the normalized text
KeywordCall ==
  /\ keyword_call = <<>>
  /\ \E text \in KeywordTexts :
       /\ keyword_call' = <<text>>
       /\ keyword_found' = [matched |-> is_multilingual_header_keyword(text),
                            bonus |-> KeywordBonus(normalize_text(text))]
  /\ UNCHANGED <<call_vars, score_vars, header_vars, normalize_vars, session_vars, profile,
                 method_call, method_result>>

KeywordSpec == Init /\ [][KeywordCall]_vars

(* ----------------------------- normalize_text alone ---------------------- *)

\* the characters of the texts: a letter, a precomposed letter, a space, a zero-width
\* space and two combining marks of different classes
NormalizeChars == {"a", "U00E9", " ", "U200B", "U0301", "U0323"}

\* the longest text
MaxNormalizeLen == 4

NormalizeTexts ==
  UNION {[1..n -> NormalizeChars] : n \in 0..MaxNormalizeLen}

\* a caller normalizes a text, and normalizes the result again
NormalizeCall ==
  /\ normalize_call = <<>>
  /\ \E text \in NormalizeTexts :
       /\ normalize_call' = <<text>>
       /\ normalize_found' = [once |-> normalize_text(text),
                              twice |-> normalize_text(normalize_text(text))]
  /\ UNCHANGED <<call_vars, score_vars, header_vars, keyword_vars, session_vars, profile,
                 method_call, method_result>>

NormalizeSpec == Init /\ [][NormalizeCall]_vars

TypeOK ==
  /\ pc \in {"idle", "exists", "analyze", "title", "headers", "close", "done"}
  /\ e \in {<<>>} \cup {<<m>> : m \in OpenErrors \cup {ZeroDivisionError}}
  /\ score_result.score \in 0..10

(* ------------------------------ properties ------------------------------ *)

\* extract_structure has returned the title and the outline it computed
Returned == pc = "done" /\ doc_analysis # <<>>

\* the analysis of the opened document, once it is assigned
TheAnalysis == doc_analysis[1]

\* the spans of the document, each with its page
SpansOf(d) == UNION {{[page |-> p, span |-> d[p][i]] : i \in DOMAIN d[p]} : p \in DOMAIN d}

\* C1: for every document, the outline that extract_structure computes and returns
\* has at most 40 entries
C1_OutlineAtMost40 == Len(outline) <= 40 /\ Len(result.outline) <= 40

\* a document with more than 40 potential headers was cut to 40 entries
C1_Witness ==
  /\ Returned
  /\ Len(TheAnalysis.potential_headers) > 40
  /\ Len(result.outline) = 40

DedupKeys(entries) == [i \in DOMAIN entries |-> processor[entries[i].text].dedup_key]

Distinct(keys) == \A i \in DOMAIN keys : \A j \in DOMAIN keys : i # j => keys[i] # keys[j]

\* C2: no two entries of a returned outline have the same text under
\* normalize_text(text.lower())
C2_NoRepeatedText == Distinct(DedupKeys(result.outline))

\* two potential headers that pass the selection share their key, one of them is returned
C2_Witness ==
  /\ Returned
  /\ result.outline # <<>>
  /\ \E i \in DOMAIN TheAnalysis.potential_headers :
       \E j \in DOMAIN TheAnalysis.potential_headers :
         /\ i # j
         /\ TheAnalysis.potential_headers[i].score >= 7
         /\ TheAnalysis.potential_headers[j].score >= 7
         /\ TheAnalysis.potential_headers[i].text # TheAnalysis.potential_headers[j].text
         /\ processor[TheAnalysis.potential_headers[i].text].dedup_key
              = processor[TheAnalysis.potential_headers[j].text].dedup_key

\* C3: when the analysis classifies the document as a form, the outline computed and
\* returned is empty, whatever the fragments are
C3_FormOutlineEmpty ==
  (doc_analysis # <<>> /\ TheAnalysis.document_type = "form")
    => (outline = <<>> /\ result.outline = <<>>)

\* a form with a bold fragment, larger than the dominant size, of a header keyword
C3_Witness ==
  /\ Returned
  /\ TheAnalysis.document_type = "form"
  /\ result.outline = <<>>
  /\ \E f \in SpansOf(doc) :
       /\ f.span.bold
       /\ f.span.size > TheAnalysis.dominant_font_size
       /\ f.span.text = <<"S", "U", "M", "M", "A", "R", "Y">>

\* the least score, in tenths, of the fragment of an entry
Threshold(document_type) == IF document_type = "simple_document" THEN 7 ELSE 5

\* the score of a span as calculate_multilingual_header_score gives it, in tenths
FragmentScore(span, dominant_font_size) ==
  calculate_multilingual_header_score(strip(span.text), span.size, span.bold,
                                      dominant_font_size).score

\* C4: every entry of a returned outline comes from a fragment of its page whose header
\* score is at least 0.5, and at least 0.7 when the document type is simple_document
C4_EntriesScoreEnough ==
  Returned =>
    \A k \in DOMAIN result.outline :
      \E f \in SpansOf(doc) :
        /\ f.page = result.outline[k].page
        /\ strip(f.span.text) = result.outline[k].text
        /\ FragmentScore(f.span, TheAnalysis.dominant_font_size)
             >= Threshold(TheAnalysis.document_type)

\* a simple document returns an entry and drops a potential header of score 0.5 or 0.6
C4_Witness ==
  /\ Returned
  /\ TheAnalysis.document_type = "simple_document"
  /\ result.outline # <<>>
  /\ \E i \in DOMAIN TheAnalysis.potential_headers :
       /\ TheAnalysis.potential_headers[i].score < 7
       /\ \A k \in DOMAIN result.outline :
            result.outline[k].text # TheAnalysis.potential_headers[i].text

\* C5: the title that extract_structure returns is never the empty string
C5_TitleNeverEmpty == pc = "done" => Len(result.title) >= 1

\* a file whose name cleans to nothing, without metadata title or candidate: "Document"
C5_Witness ==
  /\ Returned
  /\ pdf_path = <<"_", ".", "p", "d", "f">>
  /\ TheAnalysis.title_candidates = <<>>
  /\ result.title = <<"D", "o", "c", "u", "m", "e", "n", "t">>

\* C6: the score that calculate_multilingual_header_score returns for a fragment lies
\* in [0, 1] (in tenths: 0..10)
C6_ScoreInUnitInterval ==
  (score_call # <<>> /\ ~score_result.raised)
    => (0 <= score_result.score /\ score_result.score <= 10)

\* a call whose bonuses add up to more than 1 returns 1
C6_Witness ==
  /\ score_call # <<>>
  /\ ~score_result.raised
  /\ score_call[1].text # <<>>
  /\ score_call[1].dominant_font_size # 0
  /\ ScoreSum(normalize_text(score_call[1].text), score_call[1].font_size,
              score_call[1].is_bold, score_call[1].dominant_font_size) > 10
  /\ score_result.score = 10

\* C7, as the code has it: extract_structure raises nothing. For a path that does not
\* exist it returns the title "File not found" and an empty outline; for an exception
\* of the opening or of the analysis it returns the title "Error: " followed by the
\* message of the exception, which is "Error: " alone for an exception without a
\* message, and an empty outline
C7_ErrorsAreReturned ==
  /\ (pc = "done" /\ ~path_exists)
       => result = [title |-> <<"F", "i", "l", "e", " ", "n", "o", "t", " ",
                                "f", "o", "u", "n", "d">>,
                    outline |-> <<>>]
  /\ e # <<>>
       => /\ pc = "done"
          /\ result = [title |-> <<"E", "r", "r", "o", "r", ":", " ">> \o e[1],
                       outline |-> <<>>]

\* an exception without a message was caught: the title is "Error: "
C7_Witness ==
  /\ pc = "done"
  /\ e = << <<>> >>
  /\ result.title = <<"E", "r", "r", "o", "r", ":", " ">>

\* C7 as stated: an exception without a message gives the title
\* "Error processing document"
C7_AsStated ==
  (pc = "done" /\ e # <<>>)
    => result.title =
         IF e[1] = <<>>
         THEN <<"E", "r", "r", "o", "r", " ", "p", "r", "o", "c", "e", "s", "s", "i", "n", "g",
                " ", "d", "o", "c", "u", "m", "e", "n", "t">>
         ELSE <<"E", "r", "r", "o", "r", ":", " ">> \o e[1]

\* C8: a metadata title of a length inside the range is returned, trimmed, when the first
\* page has title candidates, whatever their font, weight and score
C8_MetadataTitleWins ==
  (/\ Returned
   /\ metadata.present
   /\ Len(strip(metadata.title)) > 3
   /\ Len(strip(metadata.title)) < 300
   /\ TheAnalysis.title_candidates # <<>>)
    => result.title = strip(metadata.title)

\* the best candidate is bold, larger than the dominant size and at the top of page 1,
\* the metadata title " Annual Report 2024 " is returned trimmed
C8_Witness ==
  /\ Returned
  /\ metadata.title = <<" ", "A", "n", "n", "u", "a", "l", " ", "R", "e", "p", "o", "r", "t",
                        " ", "2", "0", "2", "4", " ">>
  /\ TheAnalysis.title_candidates # <<>>
  /\ TheAnalysis.title_candidates[1].element.is_bold
  /\ TheAnalysis.title_candidates[1].element.font_size > TheAnalysis.dominant_font_size
  /\ TheAnalysis.title_candidates[1].score >= 10
  /\ result.title = <<"A", "n", "n", "u", "a", "l", " ", "R", "e", "p", "o", "r", "t",
                      " ", "2", "0", "2", "4">>

\* C9, as the code has it: for every metadata title whose trimmed length L satisfies
\* 3 < L < 300, both bounds excluded, the returned title is the trimmed metadata title
C9_TitleInsideRange ==
  (/\ Returned
   /\ metadata.present
   /\ 3 < Len(strip(metadata.title))
   /\ Len(strip(metadata.title)) < 300)
    => result.title = strip(metadata.title)

\* metadata titles of the lengths 4 and 299, the ends of the range, are returned
C9_Witness ==
  /\ Returned
  /\ metadata.present
  /\ Len(strip(metadata.title)) \in {4, 299}
  /\ result.title = strip(metadata.title)

\* C9 as stated: the same for 3 <= L <= 300, both bounds included
C9_AsStated ==
  (/\ Returned
   /\ metadata.present
   /\ 3 <= Len(strip(metadata.title))
   /\ Len(strip(metadata.title)) <= 300)
    => result.title = strip(metadata.title)

\* "Page N": the word page in any case, a space and decimal digits
PageMarker(text) ==
  /\ Len(text) >= 6
  /\ lower(SubSeq(text, 1, 5)) = <<"p", "a", "g", "e", " ">>
  /\ \A i \in 6..Len(text) : text[i] \in DecimalDigits

\* a digit string of fewer than 3 digits
ShortDigits(text) ==
  /\ Len(text) \in {1, 2}
  /\ \A i \in DOMAIN text : text[i] \in DecimalDigits

\* C10: a fragment whose text is a page marker "Page N" or a digit string of fewer than
\* 3 digits is no title candidate and no entry of the outline
C10_NoPageMarkers ==
  /\ doc_analysis # <<>> =>
       \A i \in DOMAIN TheAnalysis.title_candidates :
         /\ ~PageMarker(TheAnalysis.title_candidates[i].text)
         /\ ~ShortDigits(TheAnalysis.title_candidates[i].text)
  /\ \A k \in DOMAIN outline : ~PageMarker(outline[k].text) /\ ~ShortDigits(outline[k].text)
  /\ \A k \in DOMAIN result.outline :
       ~PageMarker(result.outline[k].text) /\ ~ShortDigits(result.outline[k].text)

\* page 1 holds a bold page marker, larger than the dominant size and at the top of the
\* page, and a bold digit string of two digits
C10_Witness ==
  /\ Returned
  /\ \E f \in SpansOf(doc) :
       /\ f.page = 1
       /\ PageMarker(strip(f.span.text))
       /\ f.span.bold
       /\ f.span.y < 300
       /\ f.span.size > TheAnalysis.dominant_font_size
  /\ \E f \in SpansOf(doc) :
       /\ f.page = 1
       /\ ShortDigits(strip(f.span.text))
       /\ Len(strip(f.span.text)) = 2
       /\ f.span.bold
       /\ f.span.y < 300

\* "N. <Title>": decimal digits, one dot, a space, and no digit after it
SingleLevelNumbered(text) ==
  \E k \in 1..(Len(text) - 2) :
    /\ \A i \in 1..k : text[i] \in AsciiDigits
    /\ text[k + 1] = "."
    /\ text[k + 2] = " "
    /\ (k + 3 <= Len(text) => text[k + 3] \notin AsciiDigits)

TwoComponents(text) ==
  \E k \in 1..(Len(text) - 3) : \E m \in (k + 2)..(Len(text) - 1) :
    /\ \A i \in 1..k : text[i] \in AsciiDigits
    /\ text[k + 1] = "."
    /\ \A i \in (k + 2)..m : text[i] \in AsciiDigits
    /\ text[m + 1] = " "

\* C12: a fragment "N.M <Title>" that is appended as a header (as "1.1 Background" at
\* font 14 over dominant font 10) has level H2, one level below "N. <Title>"
C12_TwoComponentsAreH2 ==
  (/\ header_call # <<>>
   /\ TwoComponents(header_call[1].text)
   /\ header_found.accepted)
    => header_found.level = "H2"

\* the places of the fragments of a document that the analysis keeps: the spans whose
\* stripped text has more than one character
FragmentsOf(d) ==
  UNION {{<<p, i>> : i \in {j \in DOMAIN d[p] : Len(strip(d[p][j].text)) > 1}} : p \in DOMAIN d}

\* the fragment is a short label that ends with a colon
ColonLabel(span) ==
  /\ strip(span.text)[Len(strip(span.text))] = ":"
  /\ Len(processor[strip(span.text)].normalize_text) < 40

\* the number of the short colon-terminated labels among the fragments of a document
Labels(d) == Cardinality({f \in FragmentsOf(d) : ColonLabel(d[f[1]][f[2]])})

\* C13: a document whose short colon-terminated labels are more than 35% of its
\* fragments is classified as a form and its outline is empty, without an error,
\* whatever the font sizes and weights of its fragments
C13_LabelsMakeAForm ==
  (pc = "done" /\ 100 * Labels(doc) > 35 * Cardinality(FragmentsOf(doc)))
    => (/\ e = <<>>
        /\ doc_analysis # <<>>
        /\ TheAnalysis.document_type = "form"
        /\ result.outline = <<>>)

\* a form by its labels, one of them bold and larger than the dominant size
C13_Witness ==
  /\ Returned
  /\ 100 * Labels(doc) > 35 * Cardinality(FragmentsOf(doc))
  /\ Labels(doc) < Cardinality(FragmentsOf(doc))
  /\ \E f \in FragmentsOf(doc) :
       /\ ColonLabel(doc[f[1]][f[2]])
       /\ doc[f[1]][f[2]].bold
       /\ doc[f[1]][f[2]].size > TheAnalysis.dominant_font_size
  /\ result.outline = <<>>

\* C14: every keyword of every language table passes the keyword test after
\* lower-casing and normalizing, and so earns the keyword bonus of 0.3 that
\* "Introduction" and "Vvedenie" earn
C14_EveryKeywordMatches ==
  (keyword_call # <<>> /\ lower(keyword_call[1]) \in all_header_keywords)
    => (keyword_found.matched /\ keyword_found.bonus = 3)

\* C15: normalizing a normalized text changes nothing, also where the removal of a
\* zero-width character brought combining marks or white space together
C15_NormalizeIdempotent ==
  normalize_call # <<>> => normalize_found.twice = normalize_found.once

\* C16: two calls of extract_structure on the same input (fragments, metadata and file
\* name) return equal results, on the same or on different instances and whatever
\* calls ran in between or at the same time
C16_SameInputSameResult ==
  \A i \in DOMAIN reports : \A j \in DOMAIN reports :
    reports[i].input = reports[j].input => reports[i].result = reports[j].result

\* the report was extracted twice by one instance, with an outline, and the instance
\* processed another document in between
C16_Witness ==
  /\ Len(reports) = 3
  /\ reports[1].input = reports[3].input
  /\ reports[2].input # reports[1].input
  /\ reports[1].instance = reports[2].instance
  /\ reports[2].instance = reports[3].instance
  /\ reports[3].result.outline # <<>>
  /\ reports[2].analysis # <<>>

\* C17: the analysis that the caller of a call reads from the instance after the call
\* is the analysis of that call's document: no call leaves state behind that is read
\* as belonging to another document
C17_AnalysisBelongsToCall ==
  \A i \in DOMAIN reports :
    reports[i].analysis # <<>>
      => (/\ ~_analyze_document_structure(reports[i].input.doc).raised
          /\ reports[i].analysis[1]
               = _analyze_document_structure(reports[i].input.doc).analysis)

\* C18: whenever a title candidate or a heading candidate was scored, the fragments of
\* all pages had been collected and the dominant font size and the document type had
\* been determined, and both still have the values the scoring read
C18_ProfileBeforeScoring ==
  \A i \in DOMAIN profile.scored :
    /\ profile.scored[i].pages = Len(profile.doc)
    /\ profile.scored[i].fixed = {"dominant", "type"}
    /\ profile.scored[i].dominant_font_size = profile.analysis.dominant_font_size
    /\ profile.scored[i].document_type = profile.analysis.document_type

\* the analysis of a document with fragments on its second page is complete: both
\* scoring steps ran, with a dominant font size that is not the default, and the
\* analysis is the one that extract_structure gets
C18_Witness ==
  /\ profile.step = "done"
  /\ Len(profile.scored) = 2
  /\ profile.doc[2] # <<>>
  /\ profile.analysis.dominant_font_size # 10
  /\ profile.analysis.title_candidates
       = _analyze_document_structure(profile.doc).analysis.title_candidates
  /\ profile.analysis.potential_headers
       = _analyze_document_structure(profile.doc).analysis.potential_headers
  /\ profile.analysis.potential_headers # <<>>

\* C19: a document that holds a malformed fragment (here: one of font size 0), also as
\* its most frequent font size, yields a normal result and not an error payload, and
\* no entry of its outline comes from such a fragment
C19_MalformedNeverFails ==
  (pc = "done" /\ \E s \in SpansOf(doc) : s.span.size = 0)
    => (/\ e = <<>>
        /\ Returned
        /\ \A i \in DOMAIN result.outline :
             \A s \in SpansOf(doc) :
               (s.span.size = 0 /\ s.page = result.outline[i].page)
                 => strip(s.span.text) # result.outline[i].text)

\* the levels that an outline entry may carry
Levels == {"H1", "H2", "H3", "H4", "H5", "H6"}

\* the scripts that detect_text_language names
Scripts ==
  {script_patterns[i].script : i \in DOMAIN script_patterns} \cup {"japanese", "unknown"}

LanguageCalled == method_call # <<>> /\ method_call[1].method = "detect_text_language"

\* the number of characters of the stripped text of the call in the i-th script class
ScriptCount(i) == CountIn(strip(method_call[1].text), script_patterns[i].chars)

\* C21: detect_text_language returns "unknown" exactly when no script pattern matches,
\* "japanese" when the text has a hiragana or katakana character, and otherwise the
\* script with the highest character count, the first of the table among the scripts
\* that tie for it
C21_FirstHighestScript ==
  LanguageCalled
    => (/\ (method_result = "unknown") = (\A i \in DOMAIN script_patterns : ScriptCount(i) = 0)
        /\ (ScriptCount(5) > 0 \/ ScriptCount(6) > 0) => method_result = "japanese"
        /\ (ScriptCount(5) = 0 /\ ScriptCount(6) = 0 /\ method_result # "unknown")
             => \E i \in DOMAIN script_patterns :
                  /\ script_patterns[i].script = method_result
                  /\ \A j \in DOMAIN script_patterns : ScriptCount(j) <= ScriptCount(i)
                  /\ \A j \in 1..(i - 1) : ScriptCount(j) < ScriptCount(i))

\* one Latin and one Cyrillic character, the Cyrillic one first: the tie goes to Latin
C21_Witness ==
  /\ LanguageCalled
  /\ method_call[1].text = <<"U0432", "a">>
  /\ method_result = "latin"

\* C21 as stated: the script returned has the strictly highest count, and a tie for the
\* highest count or no match gives "unknown"
C21_AsStated ==
  LanguageCalled
    => (/\ (\A i \in DOMAIN script_patterns : ScriptCount(i) = 0) => method_result = "unknown"
        /\ (\E i \in DOMAIN script_patterns : \E j \in DOMAIN script_patterns :
              /\ i # j
              /\ ScriptCount(i) = ScriptCount(j)
              /\ \A k \in DOMAIN script_patterns : ScriptCount(k) <= ScriptCount(i))
             => method_result = "unknown"
        /\ method_result # "unknown"
             => \E i \in DOMAIN script_patterns :
                  /\ script_patterns[i].script = method_result
                  /\ \A j \in DOMAIN script_patterns \ {i} : ScriptCount(j) < ScriptCount(i))

\* _determine_document_type_multilingual was applied to a list that is not empty
TypeCalled ==
  /\ method_call # <<>>
  /\ method_call[1].method = "_determine_document_type_multilingual"
  /\ \E k \in 1..5 : method_call[1].counts[k] > 0

\* the first type, in the order form, simple_document, structured_document,
\* table_heavy, document, whose condition the counts of a list satisfy
FirstMatch(n, labels, fields, numbered, single_words) ==
  IF (100 * labels > 25 * n /\ 100 * fields > 15 * n) \/ 100 * labels > 35 * n THEN "form"
  ELSE IF n < 100 /\ 10 * single_words > 5 * n THEN "simple_document"
  ELSE IF numbered > 8 THEN "structured_document"
  ELSE IF 10 * single_words > 6 * n THEN "table_heavy"
  ELSE "document"

\* the type that the order of C22 gives the list of the call
TypeInOrder(text_elements) ==
  FirstMatch(Len(text_elements),
             Cardinality({i \in DOMAIN text_elements : ShortLabel(text_elements[i])}),
             Cardinality({i \in DOMAIN text_elements : FormField(text_elements[i])}),
             Cardinality({i \in DOMAIN text_elements :
                            extract_multilingual_numbering(text_elements[i].text) # None}),
             Cardinality({i \in DOMAIN text_elements :
                            Cardinality(WordStarts(text_elements[i].normalized_text)) <= 2}))

\* C22: the document type is the first match in the order form, simple_document,
\* structured_document, table_heavy, document
C22_FirstMatchWins ==
  TypeCalled => method_result = TypeInOrder(TypeElements(method_call[1].counts))

\* fewer than 100 fragments, all of two words at most, more than 8 of them numbered,
\* and no label: a simple document
C22_Witness ==
  /\ TypeCalled
  /\ method_call[1].counts = <<0, 9, 0, 0, 9>>
  /\ method_result = "simple_document"

\* the highest score of the potential headers that have the text and the page of the
\* i-th entry of the outline
EntryScore(i) ==
  LET scores == {TheAnalysis.potential_headers[k].score :
                   k \in {j \in DOMAIN TheAnalysis.potential_headers :
                            /\ TheAnalysis.potential_headers[j].text = result.outline[i].text
                            /\ TheAnalysis.potential_headers[j].page = result.outline[i].page}}
  IN  CHOOSE x \in scores : \A y \in scores : y <= x

\* C23: the pages of consecutive outline entries never decrease, and between two
\* consecutive entries of one page the score of the heading never increases
C23_OutlineOrdered ==
  Returned
    => \A i \in 1..(Len(result.outline) - 1) :
         /\ result.outline[i].page <= result.outline[i + 1].page
         /\ result.outline[i].page = result.outline[i + 1].page
              => EntryScore(i) >= EntryScore(i + 1)

\* two entries of one page, the one of the higher score first although its fragment
\* comes second in the document
C23_Witness ==
  /\ Returned
  /\ Len(result.outline) = 2
  /\ result.outline[1].page = result.outline[2].page
  /\ EntryScore(1) > EntryScore(2)
  /\ TheAnalysis.potential_headers[1].text = result.outline[2].text

\* the potential headers that enter the walk: those that pass the document type's
\* selection
Accepted ==
  SelectSeq(TheAnalysis.potential_headers,
            LAMBDA h : h.score >= Threshold(TheAnalysis.document_type))

\* header h comes no later than header g in the order (page ascending, score descending)
NoLater(h, g) == h.page < g.page \/ (h.page = g.page /\ h.score >= g.score)

\* C24: for each normalized lower-case text among the accepted heading candidates the
\* outline has one entry (none only when 40 entries were reached), and that entry is a
\* candidate of that text that no other candidate of the text precedes in the order
\* (page ascending, score descending)
C24_FirstOccurrenceKept ==
  Returned
    => \A c \in DOMAIN Accepted :
         LET same == {k \in DOMAIN Accepted :
                        processor[Accepted[k].text].dedup_key
                          = processor[Accepted[c].text].dedup_key}
             entries == {i \in DOMAIN result.outline :
                           processor[result.outline[i].text].dedup_key
                             = processor[Accepted[c].text].dedup_key}
         IN  /\ Cardinality(entries) <= 1
             /\ Len(result.outline) < MaxOutline => Cardinality(entries) = 1
             /\ \A i \in entries :
                  \E k \in same :
                    /\ \A m \in same : NoLater(Accepted[k], Accepted[m])
                    /\ result.outline[i].text = Accepted[k].text
                    /\ result.outline[i].page = Accepted[k].page
                    /\ result.outline[i].level = Accepted[k].level

\* two accepted candidates of one normalized text on one page, the second of the
\* higher score: the outline has the second and not the first
C24_Witness ==
  /\ Returned
  /\ Len(Accepted) = 2
  /\ processor[Accepted[1].text].dedup_key = processor[Accepted[2].text].dedup_key
  /\ Accepted[1].text # Accepted[2].text
  /\ Accepted[1].page = Accepted[2].page
  /\ Accepted[1].score < Accepted[2].score
  /\ Len(result.outline) = 1
  /\ result.outline[1].text = Accepted[2].text

\* the characters of the text before its first space
Prefix(text) ==
  SubSeq(text, 1, (CHOOSE i \in DOMAIN text : text[i] = " " /\ \A j \in 1..(i - 1) : text[j] # " ") - 1)

\* the text begins with a prefix of two or three numbers joined by dots, then a space
MultiLevel(text) ==
  /\ " " \in Range(text)
  /\ Prefix(text) # <<>>
  /\ \A i \in DOMAIN Prefix(text) : Prefix(text)[i] \in AsciiDigits \cup {"."}
  /\ Prefix(text)[1] # "."
  /\ Prefix(text)[Len(Prefix(text))] # "."
  /\ \A i \in 1..(Len(Prefix(text)) - 1) : ~(Prefix(text)[i] = "." /\ Prefix(text)[i + 1] = ".")
  /\ CountIn(Prefix(text), {"."}) \in {1, 2}

\* C25: for a text that begins with a two- or three-level prefix ("1.1 ", "1.1.1 ")
\* extract_multilingual_numbering returns the whole prefix as the numbering, and as
\* text_without_numbering the rest of the normalized text, trimmed
C25_WholePrefix ==
  (/\ method_call # <<>>
   /\ method_call[1].method = "extract_multilingual_numbering"
   /\ MultiLevel(method_call[1].text))
    => (/\ method_result # None
        /\ method_result.numbering = Prefix(method_call[1].text)
        /\ method_result.text_without_numbering
             = strip(SubSeq(normalize_text(method_call[1].text),
                            Len(Prefix(method_call[1].text)) + 1,
                            Len(normalize_text(method_call[1].text)))))

\* the elements of page 1, in the order of the document
FirstPage == SelectSeq(all_text_elements(doc), LAMBDA elem : elem.page = 1)

\* the places in first_page of the 20 topmost elements: fewer than 20 elements are
\* higher on the page, or as high and earlier in the document
Topmost20(first_page) ==
  {i \in DOMAIN first_page :
     Cardinality({j \in DOMAIN first_page :
                    \/ first_page[j].y_pos < first_page[i].y_pos
                    \/ (first_page[j].y_pos = first_page[i].y_pos /\ j < i)}) < 20}

\* the title scores of the topmost places whose elements are not skipped
PlaceScores(first_page, dominant_size) ==
  [i \in {k \in Topmost20(first_page) : ~TitleSkipped(first_page[k])} |->
     TitleScore(first_page[i], dominant_size)]

\* the returned title is the text of a survivor, a place with a score of 2 or more, of
\* the highest score and the topmost of those of that score, and the cleaned file
\* name when there is no survivor
BestSurvivorOrFilename(first_page, scores) ==
  IF \A i \in DOMAIN scores : scores[i] < 2 THEN result.title = _clean_filename(pdf_path)
  ELSE \E i \in DOMAIN scores :
         /\ scores[i] >= 2
         /\ \A j \in DOMAIN scores :
              /\ scores[j] <= scores[i]
              /\ scores[j] = scores[i] => first_page[i].y_pos <= first_page[j].y_pos
         /\ result.title = first_page[i].text

\* the metadata was read and no title of it qualifies: there is no title, or its
\* trimmed length is outside the range
NoMetadataTitle ==
  /\ metadata.present
  /\ (metadata.title = <<>> \/ ~TitleInRange(strip(metadata.title)))

C27_HandleClosedOnReturn == pc = "done" => ~handle_open

\* C28: in a batch on one extractor, a file handled after other files, whose extraction
\* failed before it stored its analysis, has no detected scripts in its report, and
\* handling it leaves language_stats as it was
C28_FailedFileCountsNothing ==
  \A i \in DOMAIN reports :
    (/\ i > 1
     /\ \A j \in 1..i : reports[j].instance = reports[i].instance
     /\ _analyze_document_structure(reports[i].input.doc).raised)
      => (/\ reports[i].detected_scripts = {}
          /\ language_stats(SubSeq(reports, 1, i)) = language_stats(SubSeq(reports, 1, i - 1)))

\* the texts of the numbered boxes
NumberedBoxTexts ==
  {<<"1", ".", " ", "I", "n", "t", "r", "o", "d", "u", "c", "t", "i", "o", "n">>,
   <<"1", ".", "1", " ", "B", "a", "c", "k", "g", "r", "o", "u", "n", "d">>}

\* the only headers of the parsed file are numbered boxes: it has no bookmarks, at least
\* one numbered box, and its other boxes are body text
OnlyNumberedHeaders(call) ==
  /\ call.method = "extract_document_structure"
  /\ call.parsed
  /\ call.outlines = <<>>
  /\ \E i \in DOMAIN call.boxes : call.boxes[i].text \in NumberedBoxTexts
  /\ \A i \in DOMAIN call.boxes :
       \/ call.boxes[i].text \in NumberedBoxTexts /\ call.boxes[i].layout_type = ""
       \/ call.boxes[i].layout_type = "text"

\* C29: _extract_headers_from_patterns completes without raising for every list of
\* boxes, and a parsed file whose only headers are numbered boxes gets a non-empty
\* outline and not the "Unknown Document" result
C29_NumberedBoxesGiveOutline ==
  method_call # <<>>
    => (/\ method_call[1].method = "_extract_headers_from_patterns" => ~method_result.raised
        /\ OnlyNumberedHeaders(method_call[1])
             => (method_result.outline # <<>> /\ method_result.title # UnknownDocument))

\* C30: for all lists of ground-truth headers and of predictions, the counts that
\* calculate_metrics returns add up: true_positives + false_positives is the number of
\* predictions and true_positives + false_negatives the number of ground-truth headers
C30_CountsAddUp ==
  (method_call # <<>> /\ method_call[1].method = "calculate_metrics")
    => (/\ method_result.true_positives + method_result.false_positives
             = Len(method_call[1].predictions)
        /\ method_result.true_positives + method_result.false_negatives
             = Len(method_call[1].ground_truth))

====
